---- MODULE Spec2Model ----
(***************************************************************************)
(* A model of the kilo-rust terminal editor (src/src/main.rs).            *)
(*                                                                         *)
(* A Rust String is modelled as the sequence of its UTF-8 bytes ("stored   *)
(* units"), a char as its code point (0..255: read_key only ever builds a  *)
(* char from one byte).  String indices and lengths are byte indices and   *)
(* byte lengths, as in Rust.  Indices of the source are 0-based, TLA+      *)
(* sequences are 1-based: s[i+1] is the source's s[i].                     *)
(*                                                                         *)
(* A panic of the core thread is recorded in the field `panic` of the      *)
(* editor record: once set, nothing else happens.                          *)
(***************************************************************************)
EXTENDS Integers, Sequences, FiniteSets, TLC

VARIABLES
    editor,       \* struct Editor (main.rs 140-154), plus the panic mark
    pc,           \* where the core thread reads its next key: "render_loop"
                  \* (process_keypress), "prompt", or "terminated"
    prompt,       \* locals of Editor::prompt and of the find / save that called it
    queue,        \* the channel of spawn_stdin_channel: bytes sent, not yet received
    worker,       \* the reader thread: "running", or "dead" (its sender dropped)
    quit_presses, \* history: Ctrl-Q keys process_keypress handled in a row
    saved,        \* history: the lines at the last load or successful save
    rk,           \* a read_key call taken one receive at a time: where it stands
    taken,        \* ... what its recv and try_recv calls returned so far (-1: Empty)
    key,          \* ... and the Key it returned last
    unit          \* one Row or one line under a sequence of method calls: the
                  \* arguments drawn, the Row, and the call reached

vars == <<editor, pc, prompt, queue, worker, quit_presses, saved, rk, taken, key, unit>>

\* ------------------------------------------------------------------ bounds

MaxRows == 2        \* lines a document may grow to
MaxChars == 2       \* stored units a document may grow to
MaxQuery == 2       \* characters a prompt input may grow to
MaxQueue == 3       \* bytes the model lets wait in the channel
MaxAhead == 3       \* bytes that wait behind an ESC when a decoding run starts
MaxDrift == 2       \* how far match_index may move away from 0 with no matches
MaxLine == 3        \* chars of a line a Row is built from
MaxColumns == 9     \* chars of a line whose columns are mapped
ScreenRows == 2     \* screen_dimensions.rows (text rows, after the 2 bars)
ScreenCols == 4     \* screen_dimensions.cols

\* --------------------------------------------------------------- constants

TAB_STOP == 8
QUIT_TIMES == 3

\* Byte values
BS == 8
TAB == 9
LF == 10
CR == 13
CTRL_L == 12
CTRL_Q == 17
CTRL_R == 18
CTRL_S == 19
ESC == 27
SPACE == 32
LPAREN == 40
RPAREN == 41
DEL == 127

\* ----------------------------------------------------------------- strings

Min(a, b) == IF a < b THEN a ELSE b

\* UTF-8 encoding of a char with code point c in 0..255 (String::push / insert).
Utf8(c) == IF c < 128 THEN <<c>> ELSE <<192 + (c \div 64), 128 + (c % 64)>>

\* A UTF-8 continuation byte.
IsCont(u) == u >= 128 /\ u < 192

\* str::is_char_boundary
is_char_boundary(s, i) ==
    \/ i = 0
    \/ i = Len(s)
    \/ (i > 0 /\ i < Len(s) /\ ~IsCont(s[i + 1]))

\* The code points of s, in order (str::chars); s is valid UTF-8 of chars 0..255.
RECURSIVE str_chars(_)
str_chars(s) ==
    IF s = <<>> THEN <<>>
    ELSE IF s[1] < 128 THEN <<s[1]>> \o str_chars(Tail(s))
    ELSE <<(s[1] - 192) * 64 + (s[2] - 128)>> \o str_chars(Tail(Tail(s)))

Take(s, n) == SubSeq(s, 1, n)
Drop(s, n) == SubSeq(s, n + 1, Len(s))

RECURSIVE Spaces(_)
Spaces(n) == IF n <= 0 THEN <<>> ELSE <<SPACE>> \o Spaces(n - 1)

\* -------------------------------------------------------------------- Key

Key(kind, c) == [kind |-> kind, c |-> c]
NoKey == Key("None", 0)
ArrowKinds == {"Left", "Right", "Up", "Down"}

\* --------------------------------------------------------------------- Row

\* Row::update with NON_PRINTING_CHARACTERS = false: the rendered form of chars.
RECURSIVE render_from(_, _)
render_from(chars, render) ==
    IF chars = <<>> THEN render
    ELSE IF chars[1] = TAB
        THEN render_from(Tail(chars),
                         render \o Spaces(TAB_STOP - (Len(render) % TAB_STOP)))
        ELSE render_from(Tail(chars), Append(render, chars[1]))

Row_update(chars) == [chars |-> chars, render |-> render_from(chars, <<>>)]

\* Row::insert_char: [ok, row]; ok = FALSE is String::insert's panic.
Row_insert_char(row, index, c) ==
    LET i == IF index > Len(row.chars) THEN Len(row.chars) ELSE index
    IN  IF ~is_char_boundary(row.chars, i)
        THEN [ok |-> FALSE, row |-> row]
        ELSE [ok |-> TRUE,
              row |-> Row_update(Take(row.chars, i) \o Utf8(c) \o Drop(row.chars, i))]

\* An append_string that leaves the rendered form as it was.
Row_append_string_stale(row, s) == [chars |-> row.chars \o s, render |-> row.render]

\* Row::append_string
Row_append_string(row, s) == Row_update(row.chars \o s)

\* A delete_char that clamps its index to the last stored unit, as insert_char
\* clamps its own to the length.
Row_delete_char_clamped(row, index) ==
    LET i == IF index >= Len(row.chars) THEN Len(row.chars) - 1 ELSE index
    IN  IF row.chars = <<>> THEN [ok |-> TRUE, row |-> row]
        ELSE IF ~is_char_boundary(row.chars, i) THEN [ok |-> FALSE, row |-> row]
        ELSE [ok |-> TRUE,
              row |-> Row_update(Take(row.chars, i)
                                 \o Drop(row.chars, i + (IF row.chars[i + 1] < 128 THEN 1 ELSE 2)))]

\* Row::delete_char: String::remove takes out the whole char that starts at index.
Row_delete_char(row, index) ==
    IF index >= Len(row.chars) THEN [ok |-> TRUE, row |-> row]
    ELSE IF ~is_char_boundary(row.chars, index) THEN [ok |-> FALSE, row |-> row]
    ELSE LET w == IF row.chars[index + 1] < 128 THEN 1 ELSE 2
         IN  [ok |-> TRUE,
              row |-> Row_update(Take(row.chars, index) \o Drop(row.chars, index + w))]

\* ------------------------------------------------------------------ Editor

Position(x, y) == [x |-> x, y |-> y]

\* A status message: its text, and for a prompt the input typed so far and the
\* callback's note; i and n are the numbers the text is formatted with.
Msg(text, input, note, i, n) ==
    [text |-> text, input |-> input, note |-> note, i |-> i, n |-> n]
PlainMsg(text) == Msg(text, <<>>, "", 0, 0)

\* Editor::set_status_message (the time stamp is not modelled)
set_status_message(e, m) == [e EXCEPT !.status_message = m]

\* The core thread panics: the editor is left as it was at that point.
Panic(e) == [e EXCEPT !.panic = TRUE]

InsertAt(s, i, v) == Take(s, i) \o <<v>> \o Drop(s, i)
RemoveAt(s, i) == Take(s, i) \o Drop(s, i + 1)

\* Editor::insert_row
insert_row(e, index, chars) ==
    IF index > Len(e.rows) THEN e
    ELSE [e EXCEPT !.rows = InsertAt(e.rows, index, Row_update(chars)),
                   !.dirty = TRUE]

\* The visual width of the chars cs, counted as get_render_index and
\* get_char_index count it, starting from visual column ri.
\* (First, a count in which every tab is TAB_STOP columns wide.)
RECURSIVE render_width_fixed_tab(_, _)
render_width_fixed_tab(cs, ri) ==
    IF cs = <<>> THEN ri
    ELSE render_width_fixed_tab(Tail(cs), IF cs[1] = TAB THEN ri + TAB_STOP ELSE ri + 1)

RECURSIVE render_width(_, _)
render_width(cs, ri) ==
    IF cs = <<>> THEN ri
    ELSE render_width(Tail(cs),
                      (IF cs[1] = TAB THEN ri + (TAB_STOP - 1) - (ri % TAB_STOP) ELSE ri) + 1)

\* Editor::get_render_index: [ok, v]; ok = FALSE is the panic of the slice
\* chars[0..x] (x past the end, or inside a char).
get_render_index(e) ==
    IF e.cursor_position.y >= Len(e.rows) \/ e.cursor_position.x = 0
    THEN [ok |-> TRUE, v |-> 0]
    ELSE LET chars == e.rows[e.cursor_position.y + 1].chars
             x == e.cursor_position.x
         IN  IF x > Len(chars) \/ ~is_char_boundary(chars, x)
             THEN [ok |-> FALSE, v |-> 0]
             ELSE [ok |-> TRUE, v |-> render_width(str_chars(Take(chars, x)), 0)]

\* A loop of get_char_index that goes on until it is past the target.
RECURSIVE char_index_loop_strict(_, _, _, _)
char_index_loop_strict(cs, char_index, render_index, target) ==
    IF cs = <<>> THEN char_index
    ELSE LET ri == (IF cs[1] = TAB
                    THEN render_index + (TAB_STOP - 1) - (render_index % TAB_STOP)
                    ELSE render_index) + 1
         IN  IF ri > target THEN char_index + 1
             ELSE char_index_loop_strict(Tail(cs), char_index + 1, ri, target)

\* The loop of get_char_index over the chars cs.
RECURSIVE char_index_loop(_, _, _, _)
char_index_loop(cs, char_index, render_index, target) ==
    IF cs = <<>> THEN char_index
    ELSE LET ri == (IF cs[1] = TAB
                    THEN render_index + (TAB_STOP - 1) - (render_index % TAB_STOP)
                    ELSE render_index) + 1
         IN  IF ri >= target THEN char_index + 1
             ELSE char_index_loop(Tail(cs), char_index + 1, ri, target)

\* Editor::get_char_index
get_char_index(e) ==
    IF e.cursor_position.y >= Len(e.rows) \/ e.cursor_render_x = 0
    THEN 0
    ELSE char_index_loop(str_chars(e.rows[e.cursor_position.y + 1].chars),
                         0, 0, e.cursor_render_x)

\* Editor::get_current_row: <<>> is None, <<row>> is Some(row)
get_current_row(e) ==
    IF e.cursor_position.y >= Len(e.rows) THEN <<>>
    ELSE <<e.rows[e.cursor_position.y + 1]>>

\* A delete_row that forgets the dirty flag.
delete_row_clean(e, index) ==
    IF index >= Len(e.rows) THEN e
    ELSE [e EXCEPT !.rows = RemoveAt(e.rows, index)]

\* Editor::delete_row
delete_row(e, index) ==
    IF index >= Len(e.rows) THEN e
    ELSE [e EXCEPT !.rows = RemoveAt(e.rows, index), !.dirty = TRUE]

\* Editor::insert_char
insert_char(e, c) ==
    LET e1 == IF e.cursor_position.y = Len(e.rows)
              THEN insert_row(e, Len(e.rows), <<>>) ELSE e
        y == e1.cursor_position.y
    IN  IF y >= Len(e1.rows) THEN Panic(e1)      \* rows[y]: index out of bounds
        ELSE LET r == Row_insert_char(e1.rows[y + 1], e1.cursor_position.x, c)
             IN  IF ~r.ok THEN Panic(e1)
                 ELSE [e1 EXCEPT !.rows[y + 1] = r.row,
                                 !.cursor_position.x = @ + 1,
                                 !.dirty = TRUE]

\* Editor::delete_char
delete_char(e) ==
    LET x == e.cursor_position.x
        y == e.cursor_position.y
    IN  IF x = 0 /\ y = 0 THEN e
        ELSE IF y = Len(e.rows) THEN e
        ELSE IF y > Len(e.rows) THEN Panic(e)    \* rows[y]: index out of bounds
        ELSE IF x > 0
        THEN LET r == Row_delete_char(e.rows[y + 1], x - 1)
             IN  IF ~r.ok THEN Panic(e)
                 ELSE [e EXCEPT !.rows[y + 1] = r.row,
                                !.cursor_position.x = x - 1,
                                !.dirty = TRUE]
        ELSE LET e1 == [e EXCEPT !.cursor_position.x = Len(e.rows[y].chars),
                                 !.rows[y] = Row_append_string(e.rows[y],
                                                               e.rows[y + 1].chars)]
                 e2 == delete_row(e1, y)
             IN  [e2 EXCEPT !.cursor_position.y = y - 1]

\* An insert_newline that leaves the split line whole.
insert_newline_untruncated(e) ==
    LET x == e.cursor_position.x
        y == e.cursor_position.y
        e1 == IF x = 0 THEN insert_row(e, y, <<>>)
              ELSE IF y >= Len(e.rows) THEN Panic(e)
              ELSE IF x > Len(e.rows[y + 1].chars)
                      \/ ~is_char_boundary(e.rows[y + 1].chars, x)
                   THEN Panic(e)
              ELSE insert_row(e, y + 1, Drop(e.rows[y + 1].chars, x))
    IN  IF e1.panic THEN e1
        ELSE [e1 EXCEPT !.cursor_position = Position(0, y + 1)]

\* Editor::insert_newline
insert_newline(e) ==
    LET x == e.cursor_position.x
        y == e.cursor_position.y
        e1 == IF x = 0 THEN insert_row(e, y, <<>>)
              ELSE IF y >= Len(e.rows) THEN Panic(e)          \* rows[y]
              ELSE IF x > Len(e.rows[y + 1].chars)
                      \/ ~is_char_boundary(e.rows[y + 1].chars, x)
                   THEN Panic(e)                              \* split_at(x)
              ELSE LET chars == e.rows[y + 1].chars
                       ea == insert_row(e, y + 1, Drop(chars, x))
                   IN  [ea EXCEPT !.rows[y + 1] = Row_update(Take(chars, x))]
    IN  IF e1.panic THEN e1
        ELSE [e1 EXCEPT !.cursor_position = Position(0, y + 1)]

\* ---------------------------------------------------------------- File I/O

\* Editor::rows_to_string
RECURSIVE rows_to_string_from(_)
rows_to_string_from(rows) ==
    IF rows = <<>> THEN <<>>
    ELSE rows[1].chars \o <<LF>> \o rows_to_string_from(Tail(rows))

rows_to_string(e) == rows_to_string_from(e.rows)

\* BufRead::lines as Editor::open uses it: the text is cut after every '\n',
\* a last piece without '\n' is a line too, and each line loses its "\n" or
\* "\r\n" ending.
RECURSIVE read_lines(_, _)
read_lines(bytes, cur) ==
    IF bytes = <<>> THEN (IF cur = <<>> THEN <<>> ELSE <<cur>>)
    ELSE IF bytes[1] = LF
         THEN <<IF cur # <<>> /\ cur[Len(cur)] = CR THEN Take(cur, Len(cur) - 1) ELSE cur>>
              \o read_lines(Tail(bytes), <<>>)
         ELSE read_lines(Tail(bytes), Append(cur, bytes[1]))

RECURSIVE insert_lines(_, _)
insert_lines(e, lines) ==
    IF lines = <<>> THEN e
    ELSE insert_lines(insert_row(e, Len(e.rows), lines[1]), Tail(lines))

\* Editor::open on a file named filename whose content is bytes.
open(e, filename, bytes) ==
    [insert_lines(e, read_lines(bytes, <<>>)) EXCEPT !.filename = <<filename>>,
                                                     !.dirty = FALSE]

\* The lines of a document, as sequences of stored units.
Lines(e) == [i \in 1..Len(e.rows) |-> e.rows[i].chars]

\* ------------------------------------------------------------------ cursor

\* A move_cursor that leaves a column past the end of the line where it is.
clamp_cursor_x_skipped(e) == e

\* After a move: "move the cursor to the end of the line if it is past the end".
clamp_cursor_x(e) ==
    LET row == get_current_row(e)
        row_length == IF row # <<>> THEN Len(row[1].chars) ELSE 0
    IN  IF e.cursor_position.x > row_length
        THEN [e EXCEPT !.cursor_position.x = row_length] ELSE e

\* A move_cursor that counts a move of the cursor as a change of the document.
move_cursor_marks_dirty(e, arrow) ==
    LET x == e.cursor_position.x
        y == e.cursor_position.y
        moved ==
          CASE arrow = "Up" ->
                 IF y > 0
                 THEN LET e1 == [e EXCEPT !.cursor_position.y = y - 1]
                      IN  [e1 EXCEPT !.cursor_position.x = get_char_index(e1)]
                 ELSE e
            [] arrow = "Left" ->
                 IF x > 0 THEN [e EXCEPT !.cursor_position.x = x - 1]
                 ELSE IF y > 0
                 THEN LET e1 == [e EXCEPT !.cursor_position.y = y - 1]
                      IN  IF get_current_row(e1) = <<>> THEN Panic(e1)   \* unwrap()
                          ELSE [e1 EXCEPT !.cursor_position.x =
                                              Len(get_current_row(e1)[1].chars)]
                 ELSE e
            [] arrow = "Down" ->
                 IF y < Len(e.rows)
                 THEN LET e1 == [e EXCEPT !.cursor_position.y = y + 1]
                      IN  [e1 EXCEPT !.cursor_position.x = get_char_index(e1)]
                 ELSE e
            [] OTHER ->      \* Right
                 IF get_current_row(e) = <<>> THEN e
                 ELSE LET len == Len(get_current_row(e)[1].chars)
                      IN  IF x < len THEN [e EXCEPT !.cursor_position.x = x + 1]
                          ELSE IF x = len THEN [e EXCEPT !.cursor_position = Position(0, y + 1)]
                          ELSE e
    IN  IF moved.panic THEN moved
        ELSE [clamp_cursor_x(moved) EXCEPT !.dirty = TRUE]

\* Editor::move_cursor
move_cursor(e, arrow) ==
    LET x == e.cursor_position.x
        y == e.cursor_position.y
        moved ==
          CASE arrow = "Up" ->
                 IF y > 0
                 THEN LET e1 == [e EXCEPT !.cursor_position.y = y - 1]
                      IN  [e1 EXCEPT !.cursor_position.x = get_char_index(e1)]
                 ELSE e
            [] arrow = "Left" ->
                 IF x > 0 THEN [e EXCEPT !.cursor_position.x = x - 1]
                 ELSE IF y > 0
                 THEN LET e1 == [e EXCEPT !.cursor_position.y = y - 1]
                      IN  IF get_current_row(e1) = <<>> THEN Panic(e1)   \* unwrap()
                          ELSE [e1 EXCEPT !.cursor_position.x =
                                              Len(get_current_row(e1)[1].chars)]
                 ELSE e
            [] arrow = "Down" ->
                 IF y < Len(e.rows)
                 THEN LET e1 == [e EXCEPT !.cursor_position.y = y + 1]
                      IN  [e1 EXCEPT !.cursor_position.x = get_char_index(e1)]
                 ELSE e
            [] OTHER ->      \* Right
                 IF get_current_row(e) = <<>> THEN e
                 ELSE LET len == Len(get_current_row(e)[1].chars)
                      IN  IF x < len THEN [e EXCEPT !.cursor_position.x = x + 1]
                          ELSE IF x = len THEN [e EXCEPT !.cursor_position = Position(0, y + 1)]
                          ELSE e
    IN  IF moved.panic THEN moved ELSE clamp_cursor_x(moved)

\* move_cursor called n times, as the loop of PageUp / PageDown calls it.
RECURSIVE move_cursor_times(_, _, _)
move_cursor_times(e, arrow, n) ==
    IF n <= 0 \/ e.panic THEN e
    ELSE move_cursor_times(move_cursor(e, arrow), arrow, n - 1)

\* Editor::scroll on a screen of rows x cols cells
scroll_on(e, rows, cols) ==
    LET r == get_render_index(e)
    IN  IF ~r.ok THEN Panic(e)
        ELSE
        LET cy == e.cursor_position.y
            oy1 == IF cy < e.text_offset.y THEN cy ELSE e.text_offset.y
            oy2 == IF cy >= oy1 + rows THEN cy - rows + 1 ELSE oy1
            ox1 == IF r.v < e.text_offset.x THEN r.v ELSE e.text_offset.x
            ox2 == IF r.v >= ox1 + cols THEN r.v - cols + 1 ELSE ox1
        IN  [e EXCEPT !.cursor_render_x = r.v, !.text_offset = Position(ox2, oy2)]

\* A scroll that scrolls one cell too late (> where the code has >=).
scroll_late(e) == scroll_on(e, ScreenRows + 1, ScreenCols + 1)

scroll(e) == scroll_on(e, ScreenRows, ScreenCols)

\* ---------------------------------------------------------------- drawing

TILDE == 126

\* "\x1b[K", the sequence clear_row() appends, and the "\r\n" of a screen row
CLEAR_ROW == <<ESC, 91, 75>>
CRLF == <<CR, LF>>

\* "Kilo editor -- version " followed by VERSION ("0.0.1")
welcome_message ==
    <<75, 105, 108, 111, SPACE, 101, 100, 105, 116, 111, 114, SPACE, 45, 45,
      SPACE, 118, 101, 114, 115, 105, 111, 110, SPACE, 48, 46, 48, 46, 49>>

\* The banner branch of draw_rows: '~' and padding when there is room, then
\* the part of the message that fits.
draw_banner(cols) ==
    LET message_length == Min(Len(welcome_message), cols - 1)
        padding == (cols - message_length) \div 2
    IN  (IF padding > 0 THEN <<TILDE>> \o Spaces(padding - 1) ELSE <<>>)
        \o Take(welcome_message, message_length)

\* One pass of the loop of draw_rows that always appends clear_row().
draw_row_always_clears(e, y, rows, cols) ==
    LET file_row == y + e.text_offset.y
    IN  IF file_row >= Len(e.rows)
        THEN [out |-> (IF e.rows = <<>> /\ y = rows \div 3
                       THEN draw_banner(cols) ELSE <<TILDE>>)
                      \o CLEAR_ROW \o CRLF,
              panic |-> FALSE]
        ELSE
        LET render == e.rows[file_row + 1].render
            line_length == Len(render)
            start_index == e.text_offset.x
        IN  IF start_index < line_length
            THEN LET displayed_length ==
                         IF line_length - start_index >= cols THEN cols
                         ELSE line_length - start_index
                     end_index == start_index + displayed_length
                 IN  IF ~is_char_boundary(render, start_index)
                        \/ ~is_char_boundary(render, end_index)
                     THEN [out |-> <<>>, panic |-> TRUE]
                     ELSE [out |-> SubSeq(render, start_index + 1, end_index)
                                   \o CLEAR_ROW \o CRLF,
                           panic |-> FALSE]
            ELSE [out |-> CLEAR_ROW \o CRLF, panic |-> FALSE]

\* One pass of the loop of Editor::draw_rows: what it appends to the frame for
\* screen row y, or the panic of the slice of render off a char boundary.
draw_row(e, y, rows, cols) ==
    LET file_row == y + e.text_offset.y
    IN  IF file_row >= Len(e.rows)
        THEN [out |-> (IF e.rows = <<>> /\ y = rows \div 3
                       THEN draw_banner(cols) ELSE <<TILDE>>)
                      \o CLEAR_ROW \o CRLF,
              panic |-> FALSE]
        ELSE
        LET render == e.rows[file_row + 1].render
            line_length == Len(render)
            start_index == e.text_offset.x
        IN  IF start_index < line_length
            THEN LET filled_line == line_length - start_index >= cols
                     displayed_length ==
                         IF filled_line THEN cols
                         ELSE line_length - start_index
                     end_index == start_index + displayed_length
                 IN  IF ~is_char_boundary(render, start_index)
                        \/ ~is_char_boundary(render, end_index)
                     THEN [out |-> <<>>, panic |-> TRUE]
                     ELSE [out |-> SubSeq(render, start_index + 1, end_index)
                                   \o (IF filled_line THEN <<>> ELSE CLEAR_ROW)
                                   \o CRLF,
                           panic |-> FALSE]
            ELSE [out |-> CLEAR_ROW \o CRLF, panic |-> FALSE]

\* Editor::draw_rows from screen row y on: the bytes appended to the frame,
\* up to the first pass that panics.
RECURSIVE draw_rows_from(_, _, _, _)
draw_rows_from(e, y, rows, cols) ==
    IF y >= rows THEN [out |-> <<>>, panic |-> FALSE]
    ELSE LET row == draw_row(e, y, rows, cols)
         IN  IF row.panic THEN row
             ELSE LET rest == draw_rows_from(e, y + 1, rows, cols)
                  IN  [out |-> row.out \o rest.out, panic |-> rest.panic]

draw_rows(e) == draw_rows_from(e, 0, ScreenRows, ScreenCols)

\* The drawing half of refresh_screen: no field of the editor changes unless
\* draw_rows panics.
draw(e) == IF e.panic THEN e ELSE IF draw_rows(e).panic THEN Panic(e) ELSE e

\* Editor::refresh_screen: scroll, then the frame is drawn from the state.
refresh_screen(e) == IF e.panic THEN e ELSE draw(scroll(e))

\* ---------------------------------------------------------------- read_key

\* char::is_control for a code point in 0..255 (general category Cc)
is_control(c) == c < 32 \/ (c >= 127 /\ c < 160)

\* b | 0b01100000 and b & 0b10011111 on a byte
or_0x60(b) == b - ((b % 128) - (b % 32)) + 96
and_0x9f(b) == b - ((b % 128) - (b % 32))

\* A first_byte that takes only the bytes below 0x20 and 0x7F for control bytes.
first_byte_ascii_control(byte) ==
    IF byte = BS \/ byte = DEL THEN [at |-> "returned", n |-> 0, key |-> Key("Backspace", 0)]
    ELSE IF byte = CR THEN [at |-> "returned", n |-> 0, key |-> Key("Enter", 0)]
    ELSE IF byte = ESC THEN [at |-> "esc", n |-> 0, key |-> NoKey]
    ELSE IF byte < SPACE
         THEN [at |-> "returned", n |-> 0, key |-> Key("Ctrl", or_0x60(byte))]
         ELSE [at |-> "returned", n |-> 0, key |-> Key("Char", byte)]

\* What read_key does with the byte recv() returned: either a key (at = "returned")
\* or the start of read_escape_sequence (at = "esc").
first_byte(byte) ==
    IF byte = BS \/ byte = DEL THEN [at |-> "returned", n |-> 0, key |-> Key("Backspace", 0)]
    ELSE IF byte = CR THEN [at |-> "returned", n |-> 0, key |-> Key("Enter", 0)]
    ELSE IF byte = ESC THEN [at |-> "esc", n |-> 0, key |-> NoKey]
    ELSE IF is_control(byte)
         THEN [at |-> "returned", n |-> 0, key |-> Key("Ctrl", or_0x60(byte))]
         ELSE [at |-> "returned", n |-> 0, key |-> Key("Char", byte)]

Returned(k) == [at |-> "returned", n |-> 0, key |-> k]

\* A table of the VT codes alone: it lacks the rxvt codes 7 (Home) and 8 (End).
csi_tilde_vt(n) ==
    IF n = 49 THEN Key("Home", 0)
    ELSE IF n = 52 THEN Key("End", 0)
    ELSE IF n = 51 THEN Key("Delete", 0)
    ELSE IF n = 53 THEN Key("PageUp", 0)
    ELSE IF n = 54 THEN Key("PageDown", 0)
    ELSE Key("Esc", 0)

\* The match on the number before the tilde: <esc>[n~, n the digit's byte.
csi_tilde(n) ==
    IF n = 49 \/ n = 55 THEN Key("Home", 0)
    ELSE IF n = 52 \/ n = 56 THEN Key("End", 0)
    ELSE IF n = 51 THEN Key("Delete", 0)
    ELSE IF n = 53 THEN Key("PageUp", 0)
    ELSE IF n = 54 THEN Key("PageDown", 0)
    ELSE Key("Esc", 0)

\* One try_recv of read_escape_sequence.  at is the place of the match that
\* receives: "esc" (after ESC), "csi" (after ESC [), "csi_n" (after ESC [ n,
\* n the digit's byte), "ss3" (after ESC O).  r is what try_recv gave: <<>> for
\* Err(Empty), <<b>> for Ok(b).  The result is the next place, or the key.
escape_step(at, n, r) ==
    IF r = <<>> THEN Returned(Key("Esc", 0))
    ELSE LET b == r[1] IN
      CASE at = "esc" ->
             IF b = 91 THEN [at |-> "csi", n |-> 0, key |-> NoKey]
             ELSE IF b = 79 THEN [at |-> "ss3", n |-> 0, key |-> NoKey]
             ELSE Returned(Key("Esc", 0))
        [] at = "csi" ->
             IF b = 65 THEN Returned(Key("Up", 0))
             ELSE IF b = 66 THEN Returned(Key("Down", 0))
             ELSE IF b = 67 THEN Returned(Key("Right", 0))
             ELSE IF b = 68 THEN Returned(Key("Left", 0))
             ELSE IF b = 72 THEN Returned(Key("Home", 0))
             ELSE IF b = 70 THEN Returned(Key("End", 0))
             ELSE IF b >= 48 /\ b <= 57 THEN [at |-> "csi_n", n |-> b, key |-> NoKey]
             ELSE Returned(Key("Esc", 0))
        [] at = "csi_n" ->
             IF b = 126 THEN Returned(csi_tilde(n))
             ELSE Returned(Key("Esc", 0))
        [] OTHER ->      \* "ss3"
             IF b = 72 THEN Returned(Key("Home", 0))
             ELSE IF b = 70 THEN Returned(Key("End", 0))
             ELSE Returned(Key("Esc", 0))

\* Receiver::recv on the channel that holds q; closed: the sender is gone.
\* "Ok" with the first byte, "Disconnected" on the empty channel whose sender
\* is gone, and "Block" (the caller waits) on the empty channel otherwise.
recv(q, closed) ==
    IF q # <<>> THEN [res |-> "Ok", byte |-> q[1], rest |-> Tail(q)]
    ELSE IF closed THEN [res |-> "Disconnected", byte |-> 0, rest |-> q]
    ELSE [res |-> "Block", byte |-> 0, rest |-> q]

\* A look-ahead made with recv(): it waits where try_recv() says Empty.
try_recv_blocking(q, closed) == recv(q, closed)

\* Receiver::try_recv: as recv, but "Empty" at once where recv would wait.
try_recv(q, closed) ==
    IF q # <<>> THEN [res |-> "Ok", byte |-> q[1], rest |-> Tail(q)]
    ELSE IF closed THEN [res |-> "Disconnected", byte |-> 0, rest |-> q]
    ELSE [res |-> "Empty", byte |-> 0, rest |-> q]

\* What a receive gave, as escape_step takes it: <<b>> for Ok(b), <<>> for Empty.
Received(t) == IF t.res = "Ok" THEN <<t.byte>> ELSE <<>>

\* read_escape_sequence run to its end on a channel that holds q and gets
\* nothing more during the call: [key, rest, panic].  Err(Disconnected) is a
\* panic.
RECURSIVE read_escape_sequence(_, _, _, _)
read_escape_sequence(at, n, q, closed) ==
    LET t == try_recv(q, closed)
        st == escape_step(at, n, Received(t))
    IN  IF t.res \notin {"Ok", "Empty"} THEN [key |-> NoKey, rest |-> q, panic |-> TRUE]
        ELSE IF st.at = "returned" THEN [key |-> st.key, rest |-> t.rest, panic |-> FALSE]
        ELSE read_escape_sequence(st.at, st.n, t.rest, closed)

\* Editor::read_key on a channel that holds q (not empty: recv() blocks until
\* then) and gets nothing more during the call.
read_key(q, closed) ==
    LET st == first_byte(q[1])
    IN  IF st.at = "returned" THEN [key |-> st.key, rest |-> Tail(q), panic |-> FALSE]
        ELSE read_escape_sequence(st.at, st.n, Tail(q), closed)

\* -------------------------------------------------------------------- find

\* The regex crate on a query made of literal characters and the group
\* parentheses '(' and ')' only (the queries the model types): such a pattern
\* compiles iff its parentheses balance, and it then matches exactly the
\* occurrences of its literal characters in order (groups add nothing).
RECURSIVE paren_depth(_, _)
paren_depth(q, d) ==
    IF q = <<>> THEN d
    ELSE IF q[1] = LPAREN THEN paren_depth(Tail(q), d + 1)
    ELSE IF q[1] = RPAREN THEN (IF d = 0 THEN -1 ELSE paren_depth(Tail(q), d - 1))
    ELSE paren_depth(Tail(q), d)

IsLiteral(u) == u # LPAREN /\ u # RPAREN

\* Regex::new(query).is_ok()
regex_ok(query) == paren_depth(query, 0) = 0

regex_literal(query) == SelectSeq(query, IsLiteral)

\* Regex::find(chars): <<>> for None, <<start>> for the leftmost match's start.
regex_find(query, chars) ==
    LET lit == regex_literal(query)
        starts == {i \in 0..(Len(chars) - Len(lit)) :
                      SubSeq(chars, i + 1, i + Len(lit)) = lit}
    IN  IF starts = {} THEN <<>>
        ELSE <<CHOOSE i \in starts : \A j \in starts : i <= j>>

\* Regex::is_match(chars)
regex_is_match(query, chars) == regex_find(query, chars) # <<>>

\* The scan of find_callback: the indices of the rows that match, ascending.
RECURSIVE scan_rows(_, _, _)
scan_rows(query, rows, i) ==
    IF i >= Len(rows) THEN <<>>
    ELSE (IF regex_is_match(query, rows[i + 1].chars) THEN <<i>> ELSE <<>>)
         \o scan_rows(query, rows, i + 1)

\* The notes find_callback returns
NoNote == Msg("", <<>>, "", 0, 0)
InvalidRegex == Msg(": Invalid regex", <<>>, "", 0, 0)
NoResults == Msg(": No results", <<>>, "", 0, 0)
OutOf(i, n) == Msg(": {} out of {} results", <<>>, "", i, n)

\* a - b on usize: overflow_checks (a debug build) panics below 0, a release
\* build wraps.  A wrapped value v is kept as v - 2^64 (usize::MAX is -1): the
\* code only tests such a value for equality and adds or subtracts 1.
usize_sub(a, b, overflow_checks) ==
    [v |-> a - b, panic |-> overflow_checks /\ a >= 0 /\ b >= 0 /\ a - b < 0]

\* A select_match that moves the cursor to the row of the match only.
select_match_row_only(e, query) ==
    IF e.panic THEN [e |-> e, msg |-> NoNote]
    ELSE IF e.matches = <<>> THEN [e |-> e, msg |-> NoResults]
    ELSE IF e.match_index < 0 \/ e.match_index >= Len(e.matches)
         THEN [e |-> Panic(e), msg |-> NoNote]
    ELSE [e |-> [e EXCEPT !.cursor_position.y = e.matches[e.match_index + 1],
                          !.text_offset.y = e.matches[e.match_index + 1]],
          msg |-> OutOf(e.match_index + 1, Len(e.matches))]

\* The part of find_callback that selects the match: after the key's branch.
select_match(e, query) ==
    IF e.panic THEN [e |-> e, msg |-> NoNote]
    ELSE IF e.matches = <<>> THEN [e |-> e, msg |-> NoResults]
    ELSE IF e.match_index < 0 \/ e.match_index >= Len(e.matches)
         THEN [e |-> Panic(e), msg |-> NoNote]              \* matches[match_index]
    ELSE IF e.matches[e.match_index + 1] >= Len(e.rows)
         THEN [e |-> Panic(e), msg |-> NoNote]              \* rows[m]
    ELSE IF regex_find(query, e.rows[e.matches[e.match_index + 1] + 1].chars) = <<>>
         THEN [e |-> Panic(e), msg |-> NoNote]              \* unwrap()
    ELSE [e |-> [e EXCEPT !.cursor_position =
                              Position(regex_find(query,
                                           e.rows[e.matches[e.match_index + 1] + 1].chars)[1],
                                       e.matches[e.match_index + 1]),
                          !.text_offset.y = e.matches[e.match_index + 1]],
          msg |-> OutOf(e.match_index + 1, Len(e.matches))]

\* A find_key whose Left and Up wrap from the first match to the index after
\* the last one.
find_key_wraps_past_end(e, query, k, overflow_checks) ==
    IF k.kind \in {"Left", "Up"}
    THEN IF e.match_index = 0 THEN [e EXCEPT !.match_index = Len(e.matches)]
         ELSE [e EXCEPT !.match_index = @ - 1]
    ELSE IF k.kind \in {"Right", "Down"}
    THEN IF usize_sub(Len(e.matches), 1, overflow_checks).panic THEN Panic(e)
         ELSE IF e.match_index = Len(e.matches) - 1 THEN [e EXCEPT !.match_index = 0]
         ELSE IF overflow_checks /\ e.match_index = -1 THEN Panic(e)
         ELSE [e EXCEPT !.match_index = @ + 1]
    ELSE [e EXCEPT !.matches = scan_rows(query, e.rows, 0), !.match_index = 0]

\* The branch of find_callback's match for a key that is neither Esc nor Enter:
\* the editor with match_index moved, or with the rows scanned again.
find_key(e, query, k, overflow_checks) ==
    IF k.kind \in {"Left", "Up"}
    THEN IF e.match_index = 0
         THEN IF usize_sub(Len(e.matches), 1, overflow_checks).panic THEN Panic(e)
              ELSE [e EXCEPT !.match_index = Len(e.matches) - 1]
         ELSE [e EXCEPT !.match_index = @ - 1]
    ELSE IF k.kind \in {"Right", "Down"}
    THEN IF usize_sub(Len(e.matches), 1, overflow_checks).panic THEN Panic(e)
         ELSE IF e.match_index = Len(e.matches) - 1 THEN [e EXCEPT !.match_index = 0]
         ELSE IF overflow_checks /\ e.match_index = -1 THEN Panic(e)   \* usize::MAX + 1
         ELSE [e EXCEPT !.match_index = @ + 1]
    ELSE [e EXCEPT !.matches = scan_rows(query, e.rows, 0), !.match_index = 0]

\* A find_callback that searches without looking at what Regex::new returned.
find_callback_unchecked(e, query, k, overflow_checks) ==
    IF query = <<>> THEN [e |-> e, msg |-> NoNote]
    ELSE IF k.kind \in {"Esc", "Enter"}
         THEN [e |-> [e EXCEPT !.matches = <<>>, !.match_index = 0], msg |-> NoNote]
    ELSE select_match(find_key(e, query, k, overflow_checks), query)

\* A find_callback that reports an empty query as a search without results.
find_callback_empty_no_results(e, query, k, overflow_checks) ==
    IF query = <<>> THEN [e |-> e, msg |-> NoResults]
    ELSE IF ~regex_ok(query) THEN [e |-> e, msg |-> InvalidRegex]
    ELSE IF k.kind \in {"Esc", "Enter"}
         THEN [e |-> [e EXCEPT !.matches = <<>>, !.match_index = 0], msg |-> NoNote]
    ELSE select_match(find_key(e, query, k, overflow_checks), query)

\* A find_callback that looks at Esc and Enter before it looks at the query.
find_callback_clears_first(e, query, k, overflow_checks) ==
    IF k.kind \in {"Esc", "Enter"}
    THEN [e |-> [e EXCEPT !.matches = <<>>, !.match_index = 0], msg |-> NoNote]
    ELSE IF query = <<>> THEN [e |-> e, msg |-> NoNote]
    ELSE IF ~regex_ok(query) THEN [e |-> e, msg |-> InvalidRegex]
    ELSE select_match(find_key(e, query, k, overflow_checks), query)

\* Editor::find_callback: [e, msg]
find_callback(e, query, k, overflow_checks) ==
    IF query = <<>> THEN [e |-> e, msg |-> NoNote]
    ELSE IF ~regex_ok(query) THEN [e |-> e, msg |-> InvalidRegex]
    ELSE IF k.kind \in {"Esc", "Enter"}
         THEN [e |-> [e EXCEPT !.matches = <<>>, !.match_index = 0], msg |-> NoNote]
    ELSE select_match(find_key(e, query, k, overflow_checks), query)

\* The callback Editor::save gives to prompt
save_callback(e, query, k, overflow_checks) == [e |-> e, msg |-> NoNote]

callback(kind, e, query, k, overflow_checks) ==
    IF kind = "find" THEN find_callback(e, query, k, overflow_checks)
    ELSE save_callback(e, query, k, overflow_checks)

\* ------------------------------------------------------------------ prompt

\* The locals of a running Editor::prompt (kind, input, message) and of the
\* Editor::find that called it (saved_cursor_position, saved_text_offset).
Prompt(kind, input, message, c, o) ==
    [kind |-> kind, input |-> input, message |-> message,
     saved_cursor_position |-> c, saved_text_offset |-> o]
NoPrompt == Prompt("none", <<>>, NoNote, Position(0, 0), Position(0, 0))

PromptText(kind) ==
    IF kind = "find" THEN "Search: {} (Use ESC/Arrows/Enter)"
    ELSE "Save as: {} (ESC to cancel)"

\* The head of prompt's loop: the status message, then refresh_screen.
prompt_top(e, p) ==
    refresh_screen(set_status_message(
        e, Msg(PromptText(p.kind), p.input, p.message.text, p.message.i, p.message.n)))

\* String::pop: the last char goes, with all its stored units.
str_pop(s) ==
    IF s = <<>> THEN s
    ELSE IF IsCont(s[Len(s)]) THEN Take(s, Len(s) - 2)
    ELSE Take(s, Len(s) - 1)

\* The input of prompt after the key k
prompt_input(p, k) ==
    IF k.kind \in {"Backspace", "Delete"} THEN str_pop(p.input)
    ELSE IF k.kind = "Char" THEN p.input \o Utf8(k.c)
    ELSE p.input

\* Whether the key k makes prompt return: "None" (Esc), "Some" (Enter on an
\* input that is not empty), or "loop".
prompt_ret(p, k) ==
    IF k.kind = "Esc" THEN "None"
    ELSE IF k.kind = "Enter" /\ p.input # <<>> THEN "Some"
    ELSE "loop"

\* prompt's loop after the callback returned r: [e, p, ret].
prompt_called(p, k, r) ==
    [e |-> r.e,
     p |-> IF prompt_ret(p, k) = "loop"
           THEN [p EXCEPT !.input = prompt_input(p, k), !.message = r.msg]
           ELSE p,
     ret |-> prompt_ret(p, k)]

\* The match on the key in prompt's loop, with the callback call: [e, p, ret].
\* Esc and Enter clear the status message, call the callback and return; the
\* other keys edit the input and call the callback for the next message.
prompt_key(e, p, k, overflow_checks) ==
    prompt_called(p, k,
        IF prompt_ret(p, k) = "loop"
        THEN callback(p.kind, e, prompt_input(p, k), k, overflow_checks)
        ELSE callback(p.kind, set_status_message(e, PlainMsg("")), p.input, k,
                      overflow_checks))

\* -------------------------------------------------------------------- save

\* Editor::save from File::create on (the file name is set).  fs is what the
\* file system does: "ok", "create_failed" or "write_failed".
save_file(e, fs) ==
    IF fs = "ok"
    THEN [set_status_message(e, Msg("{} bytes written", <<>>, "", 0,
                                    Len(rows_to_string(e))))
          EXCEPT !.dirty = FALSE]
    ELSE set_status_message(e, PlainMsg("Save failed: {:?}"))

\* A find that puts back the cursor, but not the offset.
find_end_cursor_only(e, p, ret) ==
    IF ret = "None"
    THEN [e EXCEPT !.cursor_position = p.saved_cursor_position]
    ELSE e

\* Editor::find after prompt returned ret
find_end(e, p, ret) ==
    IF ret = "None"
    THEN [e EXCEPT !.cursor_position = p.saved_cursor_position,
                   !.text_offset = p.saved_text_offset]
    ELSE e

\* Editor::save after its prompt returned ret
save_end(e, p, ret, fs) ==
    IF ret = "None"
    THEN set_status_message([e EXCEPT !.filename = <<>>], PlainMsg("Save aborted"))
    ELSE save_file([e EXCEPT !.filename = <<p.input>>], fs)

\* --------------------------------------------------------- process_keypress

CtrlKey(byte) == Key("Ctrl", or_0x60(byte))

\* A Ctrl-Q branch that counts the first press: it asks while quit_times > 1.
quit_key_eager(e) ==
    IF e.dirty /\ e.quit_times > 1
    THEN [e |-> [set_status_message(
                     e, Msg("WARNING!!! File has unsaved changes. Press Ctrl-Q {} more times to quit.",
                            <<>>, "", 0, e.quit_times))
                 EXCEPT !.quit_times = @ - 1],
          result |-> "Return"]
    ELSE [e |-> e, result |-> "Terminate"]

\* The Key::Ctrl('q') branch of process_keypress
quit_key(e) ==
    IF e.dirty /\ e.quit_times > 0
    THEN [e |-> [set_status_message(
                     e, Msg("WARNING!!! File has unsaved changes. Press Ctrl-Q {} more times to quit.",
                            <<>>, "", 0, e.quit_times))
                 EXCEPT !.quit_times = @ - 1],
          result |-> "Return"]
    ELSE [e |-> e, result |-> "Terminate"]

\* A process_keypress that ends without touching quit_times.
reset_quit_times_skipped(e) == e

\* The end of process_keypress: self.quit_times = QUIT_TIMES
reset_quit_times(e) == [e EXCEPT !.quit_times = QUIT_TIMES]

\* The match on the key in process_keypress: [e, result]; result is
\* "Continue", "Terminate", "Return" (the early return of Ctrl-Q, which skips
\* the reset of quit_times), or "find" / "save" when the key opens a prompt.
process_key(e, k, fs) ==
    CASE k.kind = "Enter" -> [e |-> insert_newline(e), result |-> "Continue"]
      [] k = CtrlKey(CTRL_Q) -> quit_key(e)
      [] k = CtrlKey(CTRL_S) ->
           IF e.filename = <<>> THEN [e |-> e, result |-> "save"]
           ELSE [e |-> save_file(e, fs), result |-> "Continue"]
      [] k = CtrlKey(CTRL_R) -> [e |-> e, result |-> "find"]
      [] k.kind \in ArrowKinds -> [e |-> move_cursor(e, k.kind), result |-> "Continue"]
      [] k.kind = "PageUp" ->
           [e |-> move_cursor_times([e EXCEPT !.cursor_position.y = e.text_offset.y],
                                    "Up", ScreenRows - 1),
            result |-> "Continue"]
      [] k.kind = "PageDown" ->
           [e |-> move_cursor_times(
                      [e EXCEPT !.cursor_position.y =
                                    Min(e.text_offset.y + ScreenRows - 1, Len(e.rows))],
                      "Down", ScreenRows - 1),
            result |-> "Continue"]
      [] k.kind = "Home" -> [e |-> [e EXCEPT !.cursor_position.x = 0], result |-> "Continue"]
      [] k.kind = "End" ->
           [e |-> IF get_current_row(e) = <<>> THEN e
                  ELSE [e EXCEPT !.cursor_position.x = Len(get_current_row(e)[1].chars)],
            result |-> "Continue"]
      [] k.kind = "Backspace" -> [e |-> delete_char(e), result |-> "Continue"]
      [] k.kind = "Delete" ->
           [e |-> LET e1 == move_cursor(e, "Right")
                  IN  IF e1.panic THEN e1 ELSE delete_char(e1),
            result |-> "Continue"]
      [] k = CtrlKey(CTRL_L) \/ k.kind = "Esc" -> [e |-> e, result |-> "Continue"]
      [] k.kind = "Char" -> [e |-> insert_char(e, k.c), result |-> "Continue"]
      [] OTHER -> [e |-> insert_char(e, and_0x9f(k.c)), result |-> "Continue"]

\* The rest of process_keypress after the match gave r = [e, result], with the
\* refresh_screen that render_loop makes before the next key is read:
\* [e, pc, p].  A key that opens a prompt leaves the core in the prompt's first
\* read_key.
after_key(r) ==
    IF r.e.panic THEN [e |-> r.e, pc |-> "render_loop", p |-> NoPrompt]
    ELSE IF r.result = "Terminate" THEN [e |-> r.e, pc |-> "terminated", p |-> NoPrompt]
    ELSE IF r.result = "Return"
         THEN [e |-> refresh_screen(r.e), pc |-> "render_loop", p |-> NoPrompt]
    ELSE IF r.result = "Continue"
         THEN [e |-> refresh_screen(reset_quit_times(r.e)),
               pc |-> "render_loop", p |-> NoPrompt]
    ELSE [e |-> prompt_top(r.e, Prompt(r.result, <<>>, NoNote,
                                       r.e.cursor_position, r.e.text_offset)),
          pc |-> "prompt",
          p |-> Prompt(r.result, <<>>, NoNote, r.e.cursor_position, r.e.text_offset)]

\* Editor::process_keypress on the key k, up to the next read_key.
process_keypress(e, k, fs) == after_key(process_key(e, k, fs))

\* prompt's loop after the match and the callback gave r = [e, p, ret]: the
\* loop goes on, or prompt returns to find / save, which return to
\* process_keypress.
prompt_after(r, fs) ==
    IF r.e.panic THEN [e |-> r.e, pc |-> "prompt", p |-> r.p]
    ELSE IF r.ret = "loop" THEN [e |-> prompt_top(r.e, r.p), pc |-> "prompt", p |-> r.p]
    ELSE after_key([e |-> IF r.p.kind = "find" THEN find_end(r.e, r.p, r.ret)
                          ELSE save_end(r.e, r.p, r.ret, fs),
                    result |-> "Continue"])

\* One turn of prompt's loop on the key k, up to the next read_key.
prompt_loop(e, p, k, fs, overflow_checks) ==
    prompt_after(prompt_key(e, p, k, overflow_checks), fs)

\* ------------------------------------------------------------------- state

\* Editor::new
new ==
    [cursor_position |-> Position(0, 0),
     cursor_render_x |-> 0,
     text_offset |-> Position(0, 0),
     rows |-> <<>>,
     filename |-> <<>>,
     status_message |-> PlainMsg(""),
     dirty |-> FALSE,
     quit_times |-> QUIT_TIMES,
     matches |-> <<>>,
     match_index |-> 0,
     panic |-> FALSE]

\* A file given on the command line: its name and its bytes.
File(name, bytes) == [name |-> name, bytes |-> bytes]

\* main up to the first read_key: args is <<>> or <<file>>.
main(args) ==
    LET e == IF args = <<>> THEN new ELSE open(new, args[1].name, args[1].bytes)
    IN  refresh_screen(set_status_message(
            e, PlainMsg("HELP: Ctrl-S = Save | Ctrl-F = Find | Ctrl-Q = Quit")))

\* The stored units of a document
RECURSIVE doc_units(_)
doc_units(rows) == IF rows = <<>> THEN 0 ELSE Len(rows[1].chars) + doc_units(Tail(rows))

\* The bounds of the model on what a step may grow: a step that makes the
\* document, the prompt's input or a wrapped match_index larger than the
\* bounds is not taken.
WithinBounds(e, p, e0, p0) ==
    /\ e.rows # e0.rows => (Len(e.rows) <= MaxRows /\ doc_units(e.rows) <= MaxChars)
    /\ p.input # p0.input => Len(p.input) <= MaxQuery
    /\ e.match_index # e0.match_index
           => (e.match_index <= MaxDrift /\ e.match_index >= -MaxDrift)

\* What a step of the core takes from its surroundings: the bytes that reach
\* the channel before it reads, what the file system does on a save, and
\* whether the build checks overflow.
Input(bytes, fs, overflow_checks) ==
    [bytes |-> bytes, fs |-> fs, overflow_checks |-> overflow_checks]

RkRecv == [at |-> "recv", n |-> 0]

\* A Row under its methods: the chars it was built from, the index and the
\* char the calls are given, the Row now, and the call reached.
Unit(line, index, c, row, at) ==
    [line |-> line, index |-> index, c |-> c, row |-> row, at |-> at]
NoUnit == Unit(<<>>, 0, 0, Row_update(<<>>), "none")

InitWith(Args) ==
    /\ \E args \in Args :
           /\ editor = main(args)
           /\ saved = Lines(main(args))
    /\ pc = "render_loop"
    /\ prompt = NoPrompt
    /\ queue = <<>>
    /\ worker = "running"
    /\ quit_presses = 0
    /\ rk = RkRecv
    /\ taken = <<>>
    /\ key = NoKey
    /\ unit = NoUnit

\* The core after read_key returned r = [key, rest, panic] and the handler of
\* the key gave n = [e, pc, p].
core_handled(r, n) == [e |-> n.e, pc |-> n.pc, p |-> n.p, rest |-> r.rest, key |-> r.key]

core_read(e, at, p, r, inp) ==
    IF r.panic
    THEN [e |-> Panic(e), pc |-> at, p |-> p, rest |-> r.rest, key |-> NoKey]
    ELSE core_handled(r, IF at = "render_loop" THEN process_keypress(e, r.key, inp.fs)
                         ELSE prompt_loop(e, p, r.key, inp.fs, inp.overflow_checks))

\* The next state of the core, blocked in the read_key of process_keypress
\* (at = "render_loop") or of prompt (at = "prompt"), when the channel holds q
\* and gets nothing more before the core blocks again: [e, pc, p, rest, key].
core_next(e, at, p, q, closed, inp) ==
    IF q = <<>>      \* recv() on the empty channel whose sender is gone
    THEN [e |-> Panic(e), pc |-> at, p |-> p, rest |-> q, key |-> NoKey]
    ELSE core_read(e, at, p, read_key(q, closed), inp)

\* Whether the handler of the key k writes the file, on a file system that
\* does fs: Ctrl-S with a file name, or Enter on a name in the prompt of save.
Saves(at, k, fs) ==
    /\ fs = "ok"
    /\ \/ at = "render_loop" /\ k = CtrlKey(CTRL_S) /\ editor.filename # <<>>
       \/ at = "prompt" /\ prompt.kind = "save" /\ prompt_ret(prompt, k) = "Some"

\* The core's step to the state n = [e, pc, p, rest, key].
CoreTo(at, n, fs) ==
    /\ WithinBounds(n.e, n.p, editor, prompt)
    /\ saved' = IF Saves(at, n.key, fs) /\ ~n.e.panic THEN Lines(n.e) ELSE saved
    /\ editor' = n.e
    /\ pc' = n.pc
    /\ prompt' = n.p
    /\ queue' = n.rest
    /\ quit_presses' = IF at = "render_loop" /\ n.key = CtrlKey(CTRL_Q)
                       THEN quit_presses + 1 ELSE 0

\* The step of the core on the input inp (the reader thread sends inp.bytes,
\* then the core runs until it blocks again).
StepOn(at, inp) ==
    /\ ~editor.panic
    /\ inp.bytes = <<>> \/ worker = "running"
    /\ queue \o inp.bytes # <<>> \/ worker = "dead"
    /\ CoreTo(at, core_next(editor, at, prompt, queue \o inp.bytes, worker = "dead", inp),
              inp.fs)
    /\ UNCHANGED <<worker, rk, taken, key, unit>>

\* render_loop: one process_keypress, from its read_key to the next read_key.
ProcessKeypress(In) ==
    \E inp \in In :
        /\ pc = "render_loop"
        /\ StepOn("render_loop", inp)

\* prompt: one turn of its loop, from its read_key to the next read_key.
PromptLoop(In) ==
    \E inp \in In :
        /\ pc = "prompt"
        /\ StepOn("prompt", inp)

\* ---------------------------------------- read_key, one receive at a time

\* A reader thread on a channel of capacity one (a sync_channel(1)): it sends
\* only into the empty channel.
WorkerSend_sync(Bytes) ==
    \E b \in Bytes :
        /\ worker = "running"
        /\ Len(queue) < 1
        /\ queue' = Append(queue, b)
        /\ UNCHANGED <<editor, pc, prompt, worker, quit_presses, saved, rk, taken, key, unit>>

\* The reader thread of spawn_stdin_channel reads one byte from stdin and
\* sends it.  The channel is mpsc::channel(), which has no capacity: send never
\* waits.  MaxQueue is only how far the model follows the thread running ahead.
WorkerSend(Bytes) ==
    \E b \in Bytes :
        /\ worker = "running"
        /\ Len(queue) < MaxQueue
        /\ queue' = Append(queue, b)
        /\ UNCHANGED <<editor, pc, prompt, worker, quit_presses, saved, rk, taken, key, unit>>

\* The reader thread ends: read_exact failed, unwrap panics, the sender drops.
WorkerExit ==
    /\ worker = "running"
    /\ worker' = "dead"
    /\ UNCHANGED <<editor, pc, prompt, queue, quit_presses, saved, rk, taken, key, unit>>

\* The core after the recv() of read_key gave t.
Recv_to(t) ==
    /\ t.res # "Block"
    /\ IF t.res = "Ok"
       THEN /\ queue' = t.rest
            /\ taken' = <<t.byte>>
            /\ key' = first_byte(t.byte).key
            /\ rk' = [at |-> IF first_byte(t.byte).at = "returned" THEN "recv" ELSE "esc",
                      n |-> 0]
            /\ UNCHANGED editor
       ELSE /\ editor' = Panic(editor)
            /\ taken' = <<-2>>
            /\ key' = NoKey
            /\ UNCHANGED <<queue, rk>>

\* read_key calls recv(): it waits for a byte, and returns the key of a byte
\* that is not ESC.
Recv ==
    /\ ~editor.panic
    /\ rk.at = "recv"
    /\ Recv_to(recv(queue, worker = "dead"))
    /\ UNCHANGED <<pc, prompt, worker, quit_presses, saved, unit>>

\* The core after a try_recv() of read_escape_sequence gave t and the match on
\* it gave st.  taken gets the byte, -1 for Empty, -2 for Disconnected.
TryRecv_to(t, st) ==
    /\ t.res # "Block"
    /\ IF t.res \in {"Ok", "Empty"}
       THEN /\ queue' = t.rest
            /\ taken' = Append(taken, IF t.res = "Ok" THEN t.byte ELSE -1)
            /\ key' = st.key
            /\ rk' = IF st.at = "returned" THEN RkRecv ELSE [at |-> st.at, n |-> st.n]
            /\ UNCHANGED editor
       ELSE /\ editor' = Panic(editor)
            /\ taken' = Append(taken, -2)
            /\ UNCHANGED <<queue, rk, key>>

\* read_escape_sequence calls try_recv(): it never waits.
TryRecv ==
    /\ ~editor.panic
    /\ rk.at # "recv"
    /\ TryRecv_to(try_recv(queue, worker = "dead"),
                  escape_step(rk.at, rk.n, Received(try_recv(queue, worker = "dead"))))
    /\ UNCHANGED <<pc, prompt, worker, quit_presses, saved, unit>>

\* ------------------------------------------------------------------ inputs

Typed(bytes) == Input(bytes, "ok", FALSE)

KeyUp == <<ESC, 91, 65>>
KeyDown == <<ESC, 91, 66>>
KeyRight == <<ESC, 91, 67>>
KeyLeft == <<ESC, 91, 68>>
KeyHome == <<ESC, 91, 72>>
KeyEnd == <<ESC, 91, 70>>
KeyDelete == <<ESC, 91, 51, 126>>
KeyPageUp == <<ESC, 91, 53, 126>>
KeyPageDown == <<ESC, 91, 54, 126>>

NavKeys == {KeyUp, KeyDown, KeyRight, KeyLeft, KeyHome, KeyEnd, KeyPageUp, KeyPageDown}

\* ------------------------------------------------- Spec: an editing session
\* Typing 'a', tab and the byte 200 (a char of two stored units), Enter,
\* Backspace, Delete, every navigation key, and a search for "a" with
\* navigation, accept and cancel, from the empty document.
EditInputs ==
    {Typed(b) : b \in {<<97>>, <<TAB>>, <<200>>, <<CR>>, <<DEL>>, KeyDelete, <<CTRL_R>>}
                      \cup NavKeys}
EditPromptInputs ==
    {Input(b, "ok", oc) : b \in {<<97>>, <<CR>>, <<ESC>>, KeyDown}, oc \in BOOLEAN}

Init == InitWith({<<>>})
Next == ProcessKeypress(EditInputs) \/ PromptLoop(EditPromptInputs)
Spec == Init /\ [][Next]_vars

\* --------------------------------------- SpecSave: editing, saving, quitting
\* From the empty document or from a loaded file of two lines: typing 'a',
\* Enter, Backspace, Delete, Right, Ctrl-L, Ctrl-Q, and Ctrl-S on a file system
\* that lets the save succeed or fail, with the "Save as" prompt.
FsOutcomes == {"ok", "create_failed", "write_failed"}

SaveInputs ==
    {Typed(b) : b \in {<<97>>, <<CR>>, <<DEL>>, KeyDelete, KeyRight, <<CTRL_L>>, <<CTRL_Q>>}}
    \cup {Input(<<CTRL_S>>, fs, FALSE) : fs \in FsOutcomes}
SavePromptInputs ==
    {Input(b, fs, FALSE) : b \in {<<102>>, <<DEL>>, <<CR>>, <<ESC>>}, fs \in FsOutcomes}

InitSave == InitWith({<<>>, <<File(<<102>>, <<97, LF, 97, LF>>)>>})
NextSave == ProcessKeypress(SaveInputs) \/ PromptLoop(SavePromptInputs)
SpecSave == InitSave /\ [][NextSave]_vars

\* ------------------------------------------------- SpecBytes: typed bytes
\* From the empty document: the bytes of 'a', of Ctrl-I (tab) and of Ctrl-J, and
\* Enter, Backspace and Left, every one handled by process_keypress.
ByteInputs == {Typed(b) : b \in {<<97>>, <<TAB>>, <<LF>>, <<CR>>, <<DEL>>, KeyLeft}}

NextBytes == ProcessKeypress(ByteInputs)
SpecBytes == Init /\ [][NextBytes]_vars

\* ------------------------------------- SpecDecode: decoding what has arrived
\* The channel holds an ESC and up to MaxAhead bytes behind it when read_key is
\* called, nothing more arrives, and the reader thread is alive or has ended.
\* The bytes are those the decoder knows, and '2', 'x' for those it does not.
DecodeBytes == {65, 66, 67, 68, 70, 72, 49, 50, 51, 52, 53, 54, 55, 56, 126, 91, 79, 120}

RECURSIVE SeqsUpTo(_, _)
SeqsUpTo(S, n) ==
    IF n = 0 THEN {<<>>}
    ELSE SeqsUpTo(S, n - 1) \cup {Append(t, b) : t \in SeqsUpTo(S, n - 1), b \in S}

InitDecode ==
    /\ editor = main(<<>>)
    /\ saved = <<>>
    /\ pc = "render_loop"
    /\ prompt = NoPrompt
    /\ queue \in {<<ESC>> \o t : t \in SeqsUpTo(DecodeBytes, MaxAhead)}
    /\ worker \in {"running", "dead"}
    /\ quit_presses = 0
    /\ rk = RkRecv
    /\ taken = <<>>
    /\ key = NoKey
    /\ unit = NoUnit

NextDecode == Recv \/ TryRecv
SpecDecode == InitDecode /\ [][NextDecode]_vars

\* ------------------------------ SpecReader: the reader thread and read_key
\* The reader thread sends bytes of escape sequences at any time, and may end;
\* the core calls read_key again and again.
ReaderBytes == {ESC, 91, 51, 126, 65}

NextReader == WorkerSend(ReaderBytes) \/ WorkerExit \/ Recv \/ TryRecv
SpecReader == Init /\ [][NextReader]_vars

\* ----------------------------------------------- SpecSearch: searching
\* A loaded file ("a", "bbbba" or "b", "a", "a"); Down, Right and End move the
\* cursor, Ctrl-R opens the search; in the prompt 'a', '(' and ')' are typed,
\* Backspace edits, Down and Up step through the matches (in a build with and
\* without overflow checks), Enter accepts and Escape cancels.
SearchFiles == {<<97, LF, 98, 98, 98, 98, 97, LF>>, <<98, LF, 97, LF, 97, LF>>}

SearchInputs == {Typed(b) : b \in {<<CTRL_R>>, KeyDown, KeyRight, KeyEnd}}
SearchPromptInputs ==
    {Input(b, "ok", oc) :
        b \in {<<97>>, <<LPAREN>>, <<RPAREN>>, <<DEL>>, KeyDown, KeyUp, <<CR>>, <<ESC>>},
        oc \in BOOLEAN}

InitSearch == InitWith({<<File(<<102>>, bytes)>> : bytes \in SearchFiles})
NextSearch == ProcessKeypress(SearchInputs) \/ PromptLoop(SearchPromptInputs)
SpecSearch == InitSearch /\ [][NextSearch]_vars

\* ------------------------------------- SpecNavigate: stepping through matches
\* A loaded file ("a", "b" or "b", "a", "a"); Ctrl-R opens the search; in the
\* prompt 'a', '(' and ')' are typed (the queries "a", "aa" and "()" match one,
\* two, three or no lines), Backspace edits, the four arrows step through the
\* matches (in a build with and without overflow checks), Enter accepts and
\* Escape cancels.
NavigateFiles == {<<97, LF, 98, LF>>, <<98, LF, 97, LF, 97, LF>>}

NavigateInputs == {Typed(<<CTRL_R>>)}
NavigatePromptInputs ==
    {Input(b, "ok", oc) :
        b \in {<<97>>, <<LPAREN>>, <<RPAREN>>, <<DEL>>, KeyDown, KeyUp, KeyLeft, KeyRight,
               <<CR>>, <<ESC>>},
        oc \in BOOLEAN}

InitNavigate == InitWith({<<File(<<102>>, bytes)>> : bytes \in NavigateFiles})
NextNavigate == ProcessKeypress(NavigateInputs) \/ PromptLoop(NavigatePromptInputs)
SpecNavigate == InitNavigate /\ [][NextNavigate]_vars

\* ------------------------------------------ SpecSelect: selecting matches
\* A loaded file ("ba", "a" or "b", "baa", "a"); Down moves the cursor, Ctrl-R
\* opens the search; in the prompt 'a', '(' and ')' are typed, Backspace edits,
\* Down and Up step through the matches (in a build with and without overflow
\* checks), Enter accepts and Escape cancels.
SelectFiles == {<<98, 97, LF, 97, LF>>, <<98, LF, 98, 97, 97, LF, 97, LF>>}

SelectInputs == {Typed(b) : b \in {<<CTRL_R>>, KeyDown}}
SelectPromptInputs ==
    {Input(b, "ok", oc) :
        b \in {<<97>>, <<LPAREN>>, <<RPAREN>>, <<DEL>>, KeyDown, KeyUp, <<CR>>, <<ESC>>},
        oc \in BOOLEAN}

InitSelect == InitWith({<<File(<<102>>, bytes)>> : bytes \in SelectFiles})
NextSelect == ProcessKeypress(SelectInputs) \/ PromptLoop(SelectPromptInputs)
SpecSelect == InitSelect /\ [][NextSelect]_vars

\* ------------------------------------------- SpecFirstByte: one byte, one key
\* The channel holds one byte, any of the 256, and the document is empty:
\* process_keypress calls read_key (a recv, and for ESC the try_recv that finds
\* nothing more), then matches on the key.
InitFirstByte ==
    /\ editor = main(<<>>)
    /\ saved = <<>>
    /\ pc = "render_loop"
    /\ prompt = NoPrompt
    /\ queue \in {<<b>> : b \in 0..255}
    /\ worker = "running"
    /\ quit_presses = 0
    /\ rk = RkRecv
    /\ taken = <<>>
    /\ key = NoKey
    /\ unit = NoUnit

\* process_keypress after its read_key returned key: the match on the key and
\* what follows up to the next read_key.
MatchKey ==
    /\ ~editor.panic
    /\ pc = "render_loop"
    /\ rk = RkRecv
    /\ taken # <<>>
    /\ editor' = process_keypress(editor, key, "ok").e
    /\ pc' = process_keypress(editor, key, "ok").pc
    /\ prompt' = process_keypress(editor, key, "ok").p
    /\ taken' = <<>>
    /\ UNCHANGED <<queue, worker, quit_presses, saved, rk, key, unit>>

NextFirstByte == Recv \/ TryRecv \/ MatchKey
SpecFirstByte == InitFirstByte /\ [][NextFirstByte]_vars

\* ------------------------------------------ SpecView: moving and searching
\* From the empty document or a loaded file of two lines: typing 'a' (which
\* makes the document dirty), every navigation key, and a search whose prompt
\* is given 'a', Backspace, Delete, every navigation key, Enter and Escape.
ViewFiles == {<<97, 98, LF, 97, LF>>}
ViewKeys == {Typed(b) : b \in NavKeys}
ViewInputs == ViewKeys \cup {Typed(<<97>>), Typed(<<CTRL_R>>)}
ViewPromptInputs ==
    {Input(b, "ok", oc) :
        b \in {<<97>>, <<DEL>>, KeyDelete, <<CR>>, <<ESC>>} \cup NavKeys,
        oc \in BOOLEAN}

InitView == InitWith({<<>>} \cup {<<File(<<102>>, bytes)>> : bytes \in ViewFiles})
NextView == ProcessKeypress(ViewInputs) \/ PromptLoop(ViewPromptInputs)
SpecView == InitView /\ [][NextView]_vars

\* --------------------------------------- SpecSplit: splitting and joining
\* A loaded file ("a<tab>", or "<tab>a", or "a", "<tab>a", or one char of two
\* stored units); Up, Down, Left, Right, Home and End move the cursor, Enter
\* splits the line at the cursor, Backspace deletes a char or joins the line to
\* the one before.
SplitFiles ==
    {<<97, TAB, LF>>, <<TAB, 97, LF>>, <<97, LF, TAB, 97, LF>>, <<195, 136, LF>>}

SplitInputs ==
    {Typed(b) : b \in {KeyUp, KeyDown, KeyLeft, KeyRight, KeyHome, KeyEnd, <<CR>>, <<DEL>>}}

InitSplit == InitWith({<<File(<<102>>, bytes)>> : bytes \in SplitFiles})
NextSplit == ProcessKeypress(SplitInputs)
SpecSplit == InitSplit /\ [][NextSplit]_vars

\* ------------------------------------------- SpecRow: the methods of one Row
\* A Row built from any line of at most MaxLine chars out of 'a', tab and the
\* char 200 (two stored units), an index from 0 to two past the line's length
\* and a char: insert_char(index, c) is called on it, then delete_char(index).
RowChars == {97, TAB, 200}

\* The String of the chars cs
RECURSIVE Encode(_)
Encode(cs) == IF cs = <<>> THEN <<>> ELSE Utf8(cs[1]) \o Encode(Tail(cs))

RowLines == {Encode(cs) : cs \in SeqsUpTo(RowChars, MaxLine)}

\* The core and the reader thread, before the first key.
Idle ==
    /\ editor = main(<<>>)
    /\ saved = <<>>
    /\ pc = "render_loop"
    /\ prompt = NoPrompt
    /\ queue = <<>>
    /\ worker = "running"
    /\ quit_presses = 0
    /\ rk = RkRecv
    /\ taken = <<>>
    /\ key = NoKey

InitRow ==
    /\ Idle
    /\ \E line \in RowLines, c \in RowChars :
           \E index \in 0..(Len(line) + 2) :
               unit = Unit(line, index, c, Row_update(line), "new")

\* The Row after a method returned r = [ok, row]
Called(r, at) == [unit EXCEPT !.row = r.row, !.at = IF r.ok THEN at ELSE "panic"]

RowInsertChar ==
    /\ unit.at = "new"
    /\ unit' = Called(Row_insert_char(unit.row, unit.index, unit.c), "inserted")
    /\ UNCHANGED <<editor, pc, prompt, queue, worker, quit_presses, saved, rk, taken, key>>

RowDeleteChar ==
    /\ unit.at = "inserted"
    /\ unit' = Called(Row_delete_char(unit.row, unit.index), "deleted")
    /\ UNCHANGED <<editor, pc, prompt, queue, worker, quit_presses, saved, rk, taken, key>>

NextRow == RowInsertChar \/ RowDeleteChar
SpecRow == InitRow /\ [][NextRow]_vars

\* ------------------------------- SpecIndex: logical and visual columns
\* A document of one line of at most MaxColumns chars out of 'a' and tab, with
\* the cursor at any column of the line, or on the row past it: scroll sets
\* cursor_render_x to get_render_index(), then move_cursor sets
\* cursor_position.x to get_char_index().
ColumnChars == {97, TAB}

ColumnLines == SeqsUpTo(ColumnChars, MaxColumns)

InitIndex ==
    /\ pc = "render_loop"
    /\ prompt = NoPrompt
    /\ queue = <<>>
    /\ worker = "running"
    /\ quit_presses = 0
    /\ rk = RkRecv
    /\ taken = <<>>
    /\ key = NoKey
    /\ \E line \in ColumnLines :
           \E position \in {Position(x, 0) : x \in 0..Len(line)} \cup {Position(0, 1)} :
               /\ editor = [insert_row(new, 0, line) EXCEPT !.cursor_position = position]
               /\ saved = <<line>>
               /\ unit = Unit(line, position.x, 0, Row_update(line), "new")

\* scroll: self.cursor_render_x = self.get_render_index()
GetRenderIndex ==
    /\ unit.at = "new"
    /\ editor' = IF get_render_index(editor).ok
                 THEN [editor EXCEPT !.cursor_render_x = get_render_index(editor).v]
                 ELSE Panic(editor)
    /\ unit' = [unit EXCEPT !.at = "rendered"]
    /\ UNCHANGED <<pc, prompt, queue, worker, quit_presses, saved, rk, taken, key>>

\* move_cursor: self.cursor_position.x = self.get_char_index()
GetCharIndex ==
    /\ unit.at = "rendered"
    /\ ~editor.panic
    /\ editor' = [editor EXCEPT !.cursor_position.x = get_char_index(editor)]
    /\ unit' = [unit EXCEPT !.at = "indexed"]
    /\ UNCHANGED <<pc, prompt, queue, worker, quit_presses, saved, rk, taken, key>>

NextIndex == GetRenderIndex \/ GetCharIndex
SpecIndex == InitIndex /\ [][NextIndex]_vars

\* ================================================================== claims

\* The core is blocked in a read_key (of process_keypress or of prompt).
AtRead == ~editor.panic /\ pc \in {"render_loop", "prompt"}

\* C1: whenever the next key is read, the cursor row is in [0, number of
\* lines], the cursor column is in [0, length of the line at the cursor row],
\* and the column is 0 on the virtual line past the end.
C1_CursorInvariant ==
    AtRead =>
        /\ editor.cursor_position.y \in 0..Len(editor.rows)
        /\ editor.cursor_position.x >= 0
        /\ editor.cursor_position.y < Len(editor.rows) =>
               editor.cursor_position.x
                   <= Len(editor.rows[editor.cursor_position.y + 1].chars)
        /\ editor.cursor_position.y = Len(editor.rows) => editor.cursor_position.x = 0

\* C1's case: after edits and a finished search, the cursor has been moved to
\* the end of a second line that is not empty.
C1_Witness ==
    /\ AtRead
    /\ pc = "render_loop"
    /\ editor.status_message.text = ""
    /\ Len(editor.rows) = 2
    /\ editor.cursor_position = Position(1, 1)
    /\ Len(editor.rows[2].chars) = 1

\* C2: right after every scroll() on a screen of at least 1 x 1 cells, the
\* cursor row lies in [offset.y, offset.y + rows) and the cursor's visual column
\* in [offset.x, offset.x + cols).
C2_ViewportContainment ==
    AtRead =>
        /\ editor.cursor_render_x = get_render_index(editor).v
        /\ editor.text_offset.y <= editor.cursor_position.y
        /\ editor.cursor_position.y < editor.text_offset.y + ScreenRows
        /\ editor.text_offset.x <= editor.cursor_render_x
        /\ editor.cursor_render_x < editor.text_offset.x + ScreenCols

\* C2's case: the view has scrolled both down and to the right.
C2_Witness ==
    /\ AtRead
    /\ editor.text_offset.y > 0
    /\ editor.text_offset.x > 0
    /\ editor.cursor_render_x = editor.text_offset.x + ScreenCols - 1

\* C3: in every state, a document whose lines differ from the lines at the
\* most recent load or successful save (the empty document when nothing was
\* loaded) has the dirty flag set.
C3_DirtyTracking == Lines(editor) # saved => editor.dirty

\* C3's case: two lines of a named file were joined into one.
C3_Witness ==
    /\ editor.filename # <<>>
    /\ Len(saved) = 2
    /\ Len(editor.rows) = 1
    /\ editor.dirty

\* C4: serializing the document with rows_to_string and splitting the result
\* into lines as open() does gives back the same lines.
C4_SaveRoundTrip == read_lines(rows_to_string(editor), <<>>) = Lines(editor)

\* C5: a Ctrl-Q with unsaved changes and the counter above 0 takes one off the
\* counter and does not terminate; the session terminates with unsaved changes
\* only on a Ctrl-Q made when the counter is 0; and whenever the main loop
\* reads its next key the counter is 3 less the Ctrl-Q keys it handled since
\* the last other key: 3, 2, 1, 0, and 3 again after any other key.
C5_QuitCounter ==
    [][/\ (quit_presses' > quit_presses /\ editor.dirty /\ editor.quit_times > 0)
            => (editor'.quit_times = editor.quit_times - 1 /\ pc' = "render_loop")
       /\ (pc' = "terminated" /\ editor.dirty)
            => (quit_presses' > quit_presses /\ editor.quit_times = 0)
       /\ (pc' = "render_loop" /\ ~editor'.panic)
            => editor'.quit_times = QUIT_TIMES - quit_presses']_vars

\* C5's case: the counter has gone down to 0 on a document with unsaved changes.
C5_Witness ==
    /\ pc = "render_loop"
    /\ editor.dirty
    /\ editor.quit_times = 0
    /\ quit_presses = QUIT_TIMES

\* C6 as the spec has it: with unsaved changes the session terminates on the
\* 3rd consecutive Ctrl-Q and not before.
C6_QuitOnThirdPress ==
    /\ (pc = "terminated" /\ editor.dirty) => quit_presses = QUIT_TIMES
    /\ pc # "terminated" => quit_presses < QUIT_TIMES

\* C6, amended: with unsaved changes the session terminates on the 4th
\* consecutive Ctrl-Q (QUIT_TIMES warnings, then the quit) and not before.
C6_QuitOnFourthPress ==
    /\ (pc = "terminated" /\ editor.dirty) => quit_presses = QUIT_TIMES + 1
    /\ pc # "terminated" => quit_presses <= QUIT_TIMES

\* C6's case: the session has terminated with unsaved changes.
C6_Witness == pc = "terminated" /\ editor.dirty /\ quit_presses = QUIT_TIMES + 1

\* C7, amended: a read_key call that received ESC and returned has returned the
\* key of the decoding table below, Escape for every continuation the table
\* does not list and wherever a look-ahead found the queue empty with the reader
\* thread alive; the call panics instead only where a look-ahead found the queue
\* empty with the reader thread gone.  The table is on what the receives of the
\* call gave: ESC, then the byte each look-ahead found (-1: the queue was empty).
C7_DecodingTable ==
    LET Decoded(t) ==
          CASE t = <<ESC, 91, 65>> -> "Up"
            [] t = <<ESC, 91, 66>> -> "Down"
            [] t = <<ESC, 91, 67>> -> "Right"
            [] t = <<ESC, 91, 68>> -> "Left"
            [] t \in {<<ESC, 91, 72>>, <<ESC, 91, 49, 126>>, <<ESC, 91, 55, 126>>,
                      <<ESC, 79, 72>>} -> "Home"
            [] t \in {<<ESC, 91, 70>>, <<ESC, 91, 52, 126>>, <<ESC, 91, 56, 126>>,
                      <<ESC, 79, 70>>} -> "End"
            [] t = <<ESC, 91, 51, 126>> -> "Delete"
            [] t = <<ESC, 91, 53, 126>> -> "PageUp"
            [] t = <<ESC, 91, 54, 126>> -> "PageDown"
            [] OTHER -> "Esc"
    IN  /\ (taken # <<>> /\ taken[1] = ESC /\ rk.at = "recv" /\ ~editor.panic)
               => key.kind = Decoded(taken)
        /\ editor.panic => (worker = "dead" /\ queue = <<>>)

\* C7 as the spec has it: the same table, and every read_key call that received
\* ESC ends by returning its key: it is Escape wherever a look-ahead finds the
\* queue empty, never a panic.
C7_DecodingTableAlways ==
    /\ C7_DecodingTable
    /\ (taken # <<>> /\ taken[1] = ESC) => ~editor.panic

\* C7's case: ESC [ 8 ~ was waiting in the queue and has been decoded to End.
C7_Witness ==
    /\ rk.at = "recv"
    /\ taken = <<ESC, 91, 56, 126>>
    /\ key = Key("End", 0)

\* C8 as the spec has it: every look-ahead after an ESC returns at once, with a
\* key or with the next place of the sequence, and with Escape when no
\* continuation byte has been enqueued yet.
C8_LookAheadAlwaysReturns ==
    [][TryRecv => (~editor'.panic /\ (queue = <<>> => key' = Key("Esc", 0)))]_vars

\* C8, amended: under every interleaving of the reader thread and the core, a
\* look-ahead after an ESC never waits; a read_key call makes at most 3 of them;
\* a look-ahead that finds the queue empty returns Escape and takes nothing
\* while the reader thread is alive, and panics when it is gone; one that finds
\* a byte takes just that byte; and the next read_key call starts with the
\* first byte left in the queue.
C8_NonBlockingLookAhead ==
    [][/\ (rk.at # "recv" /\ ~editor.panic) => ENABLED TryRecv
       /\ Len(taken') <= 4
       /\ TryRecv =>
              /\ editor'.panic <=> (queue = <<>> /\ worker = "dead")
              /\ (queue = <<>> /\ worker = "running")
                     => (key' = Key("Esc", 0) /\ rk' = RkRecv /\ queue' = queue)
              /\ queue # <<>> => (queue' = Tail(queue) /\ taken' = Append(taken, Head(queue)))
       /\ (Recv /\ queue # <<>>) =>
              /\ queue' = Tail(queue)
              /\ taken' = <<Head(queue)>>
              /\ Head(queue) # ESC => (rk' = RkRecv /\ key' = first_byte(Head(queue)).key)]_vars

\* C8's case: ESC [ was read, the look-ahead behind it found the queue empty and
\* returned Escape, and bytes that arrived afterwards wait for the next call.
C8_Witness ==
    /\ rk.at = "recv"
    /\ taken = <<ESC, 91, -1>>
    /\ key = Key("Esc", 0)
    /\ queue = <<51, 126>>

\* C9: find keeps the cursor and the offset of the moment Ctrl-R was handled,
\* no key typed in the search prompt changes what it keeps, and the Escape that
\* ends the prompt leaves the cursor (row, column) and the offset (row, column)
\* equal to them when the next key is read.
C9_CancelRestores ==
    [][/\ (pc = "render_loop" /\ pc' = "prompt" /\ prompt'.kind = "find")
            => /\ prompt'.saved_cursor_position = editor.cursor_position
               /\ prompt'.saved_text_offset = editor.text_offset
       /\ (pc = "prompt" /\ pc' = "prompt")
            => /\ prompt'.saved_cursor_position = prompt.saved_cursor_position
               /\ prompt'.saved_text_offset = prompt.saved_text_offset
       /\ \A oc \in BOOLEAN :
            (pc = "prompt" /\ prompt.kind = "find"
                /\ StepOn("prompt", Input(<<ESC>>, "ok", oc)))
            => /\ pc' = "render_loop"
               /\ ~editor'.panic
               /\ editor'.cursor_position = prompt.saved_cursor_position
               /\ editor'.text_offset = prompt.saved_text_offset]_vars

\* C9's case: a search started at the end of "bbbba", with the view scrolled
\* right, found matches (they are still listed: the query was made invalid
\* before Escape) and was cancelled: the cursor is back where no match is.
C9_Witness ==
    /\ pc = "render_loop"
    /\ editor.matches # <<>>
    /\ editor.cursor_position = Position(5, 1)
    /\ editor.text_offset.x > 0

\* C10 as the spec has it: with a query that does not compile, every key the
\* search prompt hands to the callback shows the invalid-pattern message,
\* leaves the match list, the match index, the cursor and the offset as they
\* were, and the prompt stays active.
C10_InvalidRegexKeepsPrompt ==
    [][\A inp \in SearchPromptInputs :
          (/\ pc = "prompt" /\ prompt.kind = "find"
           /\ StepOn("prompt", inp)
           /\ ~regex_ok(prompt_input(prompt, read_key(queue \o inp.bytes, FALSE).key)))
          => /\ pc' = "prompt"
             /\ editor'.status_message.note = ": Invalid regex"
             /\ editor'.matches = editor.matches
             /\ editor'.match_index = editor.match_index
             /\ editor'.cursor_position = editor.cursor_position
             /\ editor'.text_offset = editor.text_offset]_vars

\* C10, amended: with a query that does not compile, every key but Escape and
\* Enter shows the invalid-pattern message, leaves the match list, the match
\* index, the cursor and the offset as they were, and the prompt stays active;
\* Escape and Enter end the prompt, with the match list and the match index as
\* they were: Enter leaves the cursor and the offset too, Escape puts back the
\* ones the search started from.
C10_InvalidRegexRecoverable ==
    [][\A inp \in SearchPromptInputs :
          (/\ pc = "prompt" /\ prompt.kind = "find"
           /\ StepOn("prompt", inp)
           /\ ~regex_ok(prompt_input(prompt, read_key(queue \o inp.bytes, FALSE).key)))
          => /\ ~editor'.panic
             /\ editor'.matches = editor.matches
             /\ editor'.match_index = editor.match_index
             /\ IF read_key(queue \o inp.bytes, FALSE).key.kind = "Esc"
                THEN /\ pc' = "render_loop"
                     /\ editor'.cursor_position = prompt.saved_cursor_position
                     /\ editor'.text_offset = prompt.saved_text_offset
                ELSE /\ editor'.cursor_position = editor.cursor_position
                     /\ editor'.text_offset = editor.text_offset
                     /\ IF read_key(queue \o inp.bytes, FALSE).key.kind = "Enter"
                        THEN pc' = "render_loop"
                        ELSE /\ pc' = "prompt"
                             /\ editor'.status_message.note = ": Invalid regex"]_vars

\* C10's case: the search had moved the cursor to the second of two matches,
\* the query then stopped compiling, and the prompt shows the message with the
\* matches, the index and the cursor as they were.
C10_Witness ==
    /\ pc = "prompt"
    /\ prompt.kind = "find"
    /\ ~regex_ok(prompt.input)
    /\ editor.status_message.note = ": Invalid regex"
    /\ Len(editor.matches) = 2
    /\ editor.match_index = 1
    /\ editor.cursor_position.y = editor.matches[2]

\* C11: in the search prompt, when the query after a key (one that does not
\* end the prompt) is not empty, compiles and matches no line, the key's step
\* does not fail, shows the "no results" status and leaves the match index 0.
C11_ZeroMatchesIsStatus ==
    [][\A inp \in SearchPromptInputs :
          (/\ pc = "prompt" /\ prompt.kind = "find"
           /\ StepOn("prompt", inp)
           /\ prompt_ret(prompt, read_key(queue \o inp.bytes, FALSE).key) = "loop"
           /\ prompt_input(prompt, read_key(queue \o inp.bytes, FALSE).key) # <<>>
           /\ regex_ok(prompt_input(prompt, read_key(queue \o inp.bytes, FALSE).key))
           /\ scan_rows(prompt_input(prompt, read_key(queue \o inp.bytes, FALSE).key),
                        editor.rows, 0) = <<>>)
          => /\ ~editor'.panic
             /\ editor'.status_message.note = ": No results"
             /\ editor'.match_index = 0]_vars

\* C12 as the spec has it: every key of the search prompt that leaves the
\* query empty (and the prompt open) shows the "no results" status.
C12_EmptyQueryNoResults ==
    [][\A inp \in SearchPromptInputs :
          (/\ pc = "prompt" /\ prompt.kind = "find"
           /\ StepOn("prompt", inp)
           /\ prompt_ret(prompt, read_key(queue \o inp.bytes, FALSE).key) = "loop"
           /\ prompt_input(prompt, read_key(queue \o inp.bytes, FALSE).key) = <<>>)
          => editor'.status_message.note = ": No results"]_vars

\* C12, amended: every key of the search prompt that leaves the query empty
\* (and the prompt open) shows no status after the prompt's text, does not
\* fail, and leaves the match list, the match index, the cursor and the offset
\* as they were.
C12_EmptyQueryNoStatus ==
    [][\A inp \in SearchPromptInputs :
          (/\ pc = "prompt" /\ prompt.kind = "find"
           /\ StepOn("prompt", inp)
           /\ prompt_ret(prompt, read_key(queue \o inp.bytes, FALSE).key) = "loop"
           /\ prompt_input(prompt, read_key(queue \o inp.bytes, FALSE).key) = <<>>)
          => /\ ~editor'.panic
             /\ pc' = "prompt"
             /\ editor'.status_message =
                    Msg("Search: {} (Use ESC/Arrows/Enter)", <<>>, "", 0, 0)
             /\ editor'.matches = editor.matches
             /\ editor'.match_index = editor.match_index
             /\ editor'.cursor_position = editor.cursor_position
             /\ editor'.text_offset = editor.text_offset]_vars

\* C12's case: a query found matches and moved the cursor to one, and was then
\* erased: the prompt shows the empty query and no status, with the matches of
\* the erased query still listed.
C12_Witness ==
    /\ pc = "prompt"
    /\ prompt.kind = "find"
    /\ prompt.input = <<>>
    /\ editor.status_message.note = ""
    /\ editor.matches # <<>>
    /\ editor.cursor_position # prompt.saved_cursor_position

C14_FailedSavePreservesState ==
    [][\A inp \in SaveInputs \cup SavePromptInputs :
          (/\ inp.fs # "ok"
           /\ StepOn(pc, inp)
           /\ \/ /\ pc = "render_loop"
                 /\ read_key(queue \o inp.bytes, FALSE).key = CtrlKey(CTRL_S)
                 /\ editor.filename # <<>>
              \/ /\ pc = "prompt" /\ prompt.kind = "save"
                 /\ prompt_ret(prompt, read_key(queue \o inp.bytes, FALSE).key) = "Some")
          => /\ ~editor'.panic
             /\ editor'.status_message.text = "Save failed: {:?}"
             /\ editor'.rows = editor.rows
             /\ editor'.dirty = editor.dirty
             /\ editor'.cursor_position = editor.cursor_position
             /\ editor'.text_offset = editor.text_offset
             /\ editor'.filename = editor.filename]_vars

\* C15: in every state, every line's rendered form is the tab expansion of its
\* stored characters: with col[i] the rendered length after the first i stored
\* units (a tab goes to the next multiple of TAB_STOP, any other unit adds
\* one), the rendered form has length col[Len(chars)], holds spaces where a
\* tab was expanded and the unit itself everywhere else.
C15_RenderInSync ==
    \A r \in 1..Len(editor.rows) :
        LET chars == editor.rows[r].chars
            render == editor.rows[r].render
            col[i \in 0..Len(chars)] ==
                IF i = 0 THEN 0
                ELSE IF chars[i] = TAB THEN ((col[i - 1] \div TAB_STOP) + 1) * TAB_STOP
                ELSE col[i - 1] + 1
        IN  /\ Len(render) = col[Len(chars)]
            /\ \A i \in 1..Len(chars) :
                   \A j \in (col[i - 1] + 1)..col[i] :
                       render[j] = IF chars[i] = TAB THEN SPACE ELSE chars[i]

\* C15's case: a line whose tab stands after another character, so that it is
\* expanded to seven spaces, in an edited document.
C15_Witness ==
    /\ AtRead
    /\ editor.dirty
    /\ \E r \in 1..Len(editor.rows) :
           /\ editor.rows[r].chars = <<97, TAB>>
           /\ Len(editor.rows[r].render) = TAB_STOP

C17_SplitJoinInverse ==
    (AtRead /\ pc = "render_loop" /\ editor.cursor_position.y < Len(editor.rows))
        => /\ ~process_keypress(editor, Key("Enter", 0), "ok").e.panic
           /\ process_keypress(editor, Key("Enter", 0), "ok").e.cursor_position
                  = Position(0, editor.cursor_position.y + 1)
           /\ Len(process_keypress(editor, Key("Enter", 0), "ok").e.rows)
                  = Len(editor.rows) + 1
           /\ ~process_keypress(process_keypress(editor, Key("Enter", 0), "ok").e,
                                Key("Backspace", 0), "ok").e.panic
           /\ Lines(process_keypress(process_keypress(editor, Key("Enter", 0), "ok").e,
                                     Key("Backspace", 0), "ok").e)
                  = Lines(editor)
           /\ process_keypress(process_keypress(editor, Key("Enter", 0), "ok").e,
                               Key("Backspace", 0), "ok").e.cursor_position
                  = editor.cursor_position

\* C17's case: the line "a<tab>" was split between its two chars by Enter and
\* joined again by Backspace (no key of this session types a char: an edited
\* document with the loaded lines has been split and joined).
C17_Witness ==
    /\ AtRead
    /\ editor.dirty
    /\ Lines(editor) = saved
    /\ Lines(editor) = <<<<97, TAB>>>>
    /\ editor.cursor_position = Position(1, 0)

C19_ForwardMapping ==
    unit.at = "rendered" =>
        /\ ~editor.panic
        /\ editor.cursor_position.y = 0
               => editor.cursor_render_x
                      = Len(Row_update(Take(unit.line, unit.index)).render)
        /\ (editor.cursor_position.y = 0 /\ unit.index > 0
                /\ unit.line[unit.index] = TAB)
               => LET before ==
                          get_render_index(
                              [editor EXCEPT !.cursor_position.x = unit.index - 1]).v
                  IN  /\ editor.cursor_render_x % TAB_STOP = 0
                      /\ editor.cursor_render_x > before
                      /\ editor.cursor_render_x - TAB_STOP <= before
        /\ (editor.cursor_position.x = 0 \/ editor.cursor_position.y >= Len(editor.rows))
               => editor.cursor_render_x = 0

\* C19's case: a tab after eight chars, which ends at visual column 16.
C19_Witness ==
    /\ unit.at = "rendered"
    /\ unit.line = <<97, 97, 97, 97, 97, 97, 97, 97, TAB>>
    /\ unit.index = 9
    /\ editor.cursor_render_x = 2 * TAB_STOP

\* C20 as the spec has it: the channel has a capacity that holds the reader
\* thread back, however far it runs ahead of the core: for a capacity below
\* the MaxQueue bytes the model follows, the channel never holds MaxQueue bytes.
C20_BoundedQueue == Len(queue) < MaxQueue

\* C20, amended: the channel has no capacity: whatever it holds (as far as the
\* model follows it) and wherever the core stands, the running reader thread
\* can send one more byte, which goes to the end of the channel; a receive of
\* the core takes the byte at the front; nothing else changes the channel: the
\* bytes are received in the order they were sent.
C20_UnboundedFifoQueue ==
    [][/\ (worker = "running" /\ Len(queue) < MaxQueue) => ENABLED WorkerSend(ReaderBytes)
       /\ queue' # queue
              => \/ \E b \in ReaderBytes : queue' = Append(queue, b)
                 \/ /\ queue # <<>>
                    /\ queue' = Tail(queue)
                    /\ taken' # <<>>
                    /\ taken'[Len(taken')] = Head(queue)]_vars

\* C20's case: the core has received 'A' and is back at recv(), and the reader
\* thread has sent the three bytes of an Up key after it, which all wait.
C20_Witness ==
    /\ worker = "running"
    /\ rk = RkRecv
    /\ taken = <<65>>
    /\ queue = <<ESC, 91, 65>>
    /\ Len(queue) = MaxQueue

\* C21 as the spec has it: the key that ends the search prompt (Escape, or
\* Enter on an input that is not empty) leaves the match list empty and the
\* match index 0.
C21_ResetOnDismissal ==
    [][\A inp \in NavigatePromptInputs :
          (/\ pc = "prompt" /\ prompt.kind = "find"
           /\ StepOn("prompt", inp)
           /\ prompt_ret(prompt, read_key(queue \o inp.bytes, FALSE).key) # "loop")
          => /\ editor'.matches = <<>>
             /\ editor'.match_index = 0]_vars

\* C21, amended: the key that ends the search prompt ends it without a
\* failure; it leaves the match list empty and the match index 0 when the
\* query is not empty and compiles, and leaves both as they were when the
\* query is empty or does not compile.
C21_ResetOnValidDismissal ==
    [][\A inp \in NavigatePromptInputs :
          (/\ pc = "prompt" /\ prompt.kind = "find"
           /\ StepOn("prompt", inp)
           /\ prompt_ret(prompt, read_key(queue \o inp.bytes, FALSE).key) # "loop")
          => /\ ~editor'.panic
             /\ pc' = "render_loop"
             /\ IF prompt.input # <<>> /\ regex_ok(prompt.input)
                THEN /\ editor'.matches = <<>>
                     /\ editor'.match_index = 0
                ELSE /\ editor'.matches = editor.matches
                     /\ editor'.match_index = editor.match_index]_vars

\* C21's case: the search prompt has ended and the three matches of a query,
\* with the last of them selected, are still recorded.
C21_Witness ==
    /\ pc = "render_loop"
    /\ ~editor.panic
    /\ Len(editor.matches) = 3
    /\ editor.match_index = 2

\* C22: when a key of the search prompt leaves a query that compiles and a
\* match list that is not empty, the key did not fail, the match list is the
\* ascending list of the rows that hold the query's text, the cursor row and
\* the vertical offset are the selected match, the cursor column is the
\* leftmost place of the query's text in that row, and the status counts the
\* match; an Enter that accepts in such a state leaves the cursor where it is.
C22_SelectionAndAccept ==
    [][\A inp \in SelectPromptInputs :
          (/\ pc = "prompt" /\ prompt.kind = "find"
           /\ StepOn("prompt", inp)
           /\ regex_ok(prompt_input(prompt, read_key(queue \o inp.bytes, FALSE).key))
           /\ prompt_input(prompt, read_key(queue \o inp.bytes, FALSE).key) # <<>>)
          => LET lit == regex_literal(
                            prompt_input(prompt, read_key(queue \o inp.bytes, FALSE).key))
                 Holds(r, x) ==
                     /\ x + Len(lit) <= Len(editor.rows[r + 1].chars)
                     /\ SubSeq(editor.rows[r + 1].chars, x + 1, x + Len(lit)) = lit
                 Matches(r) == \E x \in 0..Len(editor.rows[r + 1].chars) : Holds(r, x)
                 m == editor'.matches
                 y == editor'.cursor_position.y
             IN  /\ (prompt_ret(prompt, read_key(queue \o inp.bytes, FALSE).key) = "loop"
                        /\ m # <<>>)
                     => /\ ~editor'.panic
                        /\ \A i \in 1..(Len(m) - 1) : m[i] < m[i + 1]
                        /\ \A r \in 0..(Len(editor.rows) - 1) :
                               Matches(r) <=> \E i \in 1..Len(m) : m[i] = r
                        /\ editor'.match_index \in 0..(Len(m) - 1)
                        /\ y = m[editor'.match_index + 1]
                        /\ editor'.text_offset.y = y
                        /\ Holds(y, editor'.cursor_position.x)
                        /\ \A x \in 0..(editor'.cursor_position.x - 1) : ~Holds(y, x)
                        /\ editor'.status_message.note = ": {} out of {} results"
                        /\ editor'.status_message.i = editor'.match_index + 1
                        /\ editor'.status_message.n = Len(m)
                 /\ (prompt_ret(prompt, read_key(queue \o inp.bytes, FALSE).key) = "Some"
                        /\ editor.matches # <<>>)
                     => /\ ~editor'.panic
                        /\ pc' = "render_loop"
                        /\ editor'.cursor_position = editor.cursor_position
                        /\ editor'.text_offset.y = editor.text_offset.y]_vars

\* C22's case: the search was accepted with the cursor on the first 'a' of
\* "baa", the second line, where only a selected match can have put it.
C22_Witness ==
    /\ pc = "render_loop"
    /\ ~editor.panic
    /\ Len(editor.rows) = 3
    /\ editor.cursor_position = Position(1, 1)
    /\ editor.text_offset.y = 1
    /\ editor.matches = <<>>

\* C23: the recv of read_key that takes the byte b returns Backspace for 0x08
\* and 0x7F, Enter for 0x0D, starts the escape decoding for 0x1B, returns
\* Ctrl(b | 0x60) for every other control byte (for these b | 0x60 = b + 0x60;
\* 0x11 gives Ctrl('q')) and Char(b) for every other byte; the match of
\* process_keypress on a Ctrl key other than Ctrl-Q, -S, -R, -L inserts the
\* char with the code of the byte taken (0x09 inserts a tab).
C23_FirstByteClassification ==
    [][/\ (rk = RkRecv /\ queue # <<>> /\ taken' # <<>> /\ queue' # queue)
            => LET b == queue[1]
               IN  /\ taken' = <<b>>
                   /\ IF b = 27 THEN rk'.at = "esc"
                      ELSE /\ rk' = RkRecv
                           /\ key' = IF b \in {8, 127} THEN Key("Backspace", 0)
                                     ELSE IF b = 13 THEN Key("Enter", 0)
                                     ELSE IF b < 32 \/ b \in 128..159
                                          THEN Key("Ctrl", b + 96)
                                     ELSE Key("Char", b)
                   /\ b = 17 => key' = Key("Ctrl", 113)
       /\ (taken # <<>> /\ taken' = <<>> /\ key.kind = "Ctrl"
              /\ key.c \notin {113, 115, 114, 108})
            => /\ Lines(editor') = <<Utf8(taken[1])>>
               /\ editor'.dirty
               /\ editor'.cursor_position = Position(1, 0)
               /\ taken[1] < 128 => ~editor'.panic
               /\ taken[1] = 9 => editor'.rows[1].render = Spaces(8)]_vars

\* C23's case: the byte 0x09 was taken, decoded to Ctrl('i'), and the match of
\* process_keypress has put a tab into the document.
C23_Witness ==
    /\ taken = <<>>
    /\ key = Key("Ctrl", 105)
    /\ Lines(editor) = <<<<TAB>>>>
    /\ ~editor.panic

\* ----------------------------------------------------------------------
\* C24  Row rendering in a frame: whenever the editor waits for a key, the
\*      frame that refresh_screen has just drawn holds, for each screen row y,
\*      - if y + text_offset.y is a document line: the cells of that line's
\*        render from column text_offset.x on, at most ScreenCols of them
\*        (none when text_offset.x is at or past the length of render),
\*        followed by clear-to-end-of-line exactly when fewer than ScreenCols
\*        cells were emitted;
\*      - otherwise the filler row '~', except that the row is the banner row
\*        exactly when the document has no line and y = ScreenRows / 3, and
\*        the banner row holds the part of the welcome message that fits,
\*        centred behind a '~' when there is room for padding;
\*      and every row ends with "\r\n".
C24_RowRendering ==
    AtRead =>
      /\ ~draw_rows(editor).panic
      /\ \A y \in 0..(ScreenRows - 1) :
           LET row == draw_row(editor, y, ScreenRows, ScreenCols).out
               file_row == y + editor.text_offset.y
               filler == <<TILDE>> \o CLEAR_ROW \o CRLF
           IN  IF file_row < Len(editor.rows)
               THEN LET render == editor.rows[file_row + 1].render
                        last == Min(Len(render), editor.text_offset.x + ScreenCols)
                        cells == SubSeq(render, editor.text_offset.x + 1, last)
                    IN  /\ Len(cells) <= ScreenCols
                        /\ editor.text_offset.x >= Len(render) => cells = <<>>
                        /\ row = cells
                                 \o (IF Len(cells) < ScreenCols THEN CLEAR_ROW ELSE <<>>)
                                 \o CRLF
               ELSE IF editor.rows = <<>> /\ y = ScreenRows \div 3
               THEN LET shown == Min(Len(welcome_message), ScreenCols - 1)
                        room == (ScreenCols - shown) \div 2
                    IN  /\ row = (IF room > 0 THEN <<TILDE>> \o Spaces(room - 1) ELSE <<>>)
                                 \o SubSeq(welcome_message, 1, shown)
                                 \o CLEAR_ROW \o CRLF
                        /\ row # filler
               ELSE row = filler

\* C24's case: the view is scrolled to the right, one visible line fills the
\* whole width of the screen (no clear-to-end-of-line) and another visible
\* line ends left of the view (nothing but clear-to-end-of-line).
C24_Witness ==
    /\ AtRead
    /\ editor.text_offset.x > 0
    /\ \E y \in 0..(ScreenRows - 1) :
         /\ y + editor.text_offset.y < Len(editor.rows)
         /\ Len(editor.rows[y + editor.text_offset.y + 1].render)
              >= editor.text_offset.x + ScreenCols
         /\ draw_row(editor, y, ScreenRows, ScreenCols).out
              = SubSeq(editor.rows[y + editor.text_offset.y + 1].render,
                       editor.text_offset.x + 1,
                       editor.text_offset.x + ScreenCols) \o CRLF
    /\ \E y \in 0..(ScreenRows - 1) :
         /\ y + editor.text_offset.y < Len(editor.rows)
         /\ Len(editor.rows[y + editor.text_offset.y + 1].render)
              <= editor.text_offset.x
         /\ draw_row(editor, y, ScreenRows, ScreenCols).out = CLEAR_ROW \o CRLF

\* ----------------------------------------------------------------------
\* C25  Navigation and search never edit the document: a step of the main
\*      loop on an arrow key, Home, End, PageUp or PageDown, and a step of
\*      the search prompt on any key (Enter and Escape included), leaves the
\*      rows (their number, chars and render) and the dirty flag as they were.
C25_ViewKeysKeepDocument ==
    [][/\ \A inp \in ViewKeys :
             (pc = "render_loop" /\ StepOn("render_loop", inp))
             => /\ editor'.rows = editor.rows
                /\ editor'.dirty = editor.dirty
       /\ \A inp \in ViewPromptInputs :
             (pc = "prompt" /\ prompt.kind = "find" /\ StepOn("prompt", inp))
             => /\ editor'.rows = editor.rows
                /\ editor'.dirty = editor.dirty]_vars

\* C25's case: in a document that was loaded and never edited, the view has
\* been moved to the second line (by a search accepted on its second match or
\* by the cursor keys) and the cursor to the end of that line; the lines are
\* those of the file and the dirty flag is clear.
C25_Witness ==
    /\ pc = "render_loop"
    /\ ~editor.panic
    /\ Lines(editor) = <<<<97, 98>>, <<97>>>>
    /\ ~editor.dirty
    /\ editor.cursor_position = Position(1, 1)
    /\ editor.text_offset.y = 1
    /\ editor.matches = <<>>

\* ----------------------------------------------------------------------
\* C26  Cursor column is always a valid index into the stored line: for every
\*      byte 0x00-0xFF that process_keypress inserts as a char, the cursor
\*      column after the insertion is on a char boundary of the chars of the
\*      cursor's row, and the step (the insertion and the get_render_index of
\*      the scroll that follows it) does not fail.
C26_CursorOnCharBoundary ==
    [][(/\ taken # <<>> /\ taken' = <<>>
        /\ key.kind \in {"Char", "Ctrl"}
        /\ editor'.rows # editor.rows)
       => /\ Lines(editor') = <<Utf8(taken[1])>>
          /\ editor'.cursor_position = Position(1, 0)
          /\ is_char_boundary(editor'.rows[1].chars, editor'.cursor_position.x)
          /\ ~editor'.panic]_vars

====
